---- MODULE Spec2Model ----
(***************************************************************************)
(* Model of the MySQL MCP gateway (src/mcp_mysql_server/run_server.py):    *)
(* the safety validator (is_safe_query, is_sql_injection), the read-only   *)
(* execution envelope (query_data), the schema catalog (get_schema) and    *)
(* the audit log (log_query, get_query_logs).                              *)
(*                                                                         *)
(* SQL text is a sequence of one-character strings, so that the string     *)
(* operations of the validator (split, lower, substring search, regular    *)
(* expressions) are computed character by character as the code does.      *)
(***************************************************************************)
EXTENDS Integers, Sequences, FiniteSets, TLC

\* ------------------------------------------------------------------------
\* Characters and Python string primitives
\* ------------------------------------------------------------------------
Uppers == <<"A", "B", "C", "D", "E", "F", "G", "H", "I", "J", "K", "L", "M",
            "N", "O", "P", "Q", "R", "S", "T", "U", "V", "W", "X", "Y", "Z">>

Lowers == <<"a", "b", "c", "d", "e", "f", "g", "h", "i", "j", "k", "l", "m",
            "n", "o", "p", "q", "r", "s", "t", "u", "v", "w", "x", "y", "z">>

Digits == {"0", "1", "2", "3", "4", "5", "6", "7", "8", "9"}

WhiteSpace == {" ", "\t", "\n"}

\* \w of the re module: letters, digits and the underscore
WordChars ==
    {Uppers[i] : i \in 1..26} \cup {Lowers[i] : i \in 1..26} \cup Digits \cup {"_"}

IsWs(c) == c \in WhiteSpace

IsWordChar(c) == c \in WordChars

\* str.lower(), one character
LowerChar(c) ==
    IF \E i \in 1..26 : Uppers[i] = c
    THEN Lowers[CHOOSE i \in 1..26 : Uppers[i] = c]
    ELSE c

\* str.lower()
lower(s) == [i \in 1..Len(s) |-> LowerChar(s[i])]

\* pat occurs in s at offset i (0-based): s[i:i+len(pat)] == pat
MatchAt(pat, s, i) ==
    /\ i >= 0
    /\ i + Len(pat) <= Len(s)
    /\ \A j \in 1..Len(pat) : s[i + j] = pat[j]

\* `pat in s`
Contains(pat, s) == \E i \in 0..(Len(s) - Len(pat)) : MatchAt(pat, s, i)

\* s.startswith(pat)
startswith(s, pat) == MatchAt(pat, s, 0)

RECURSIVE join(_, _)
\* sep.join(parts)
join(sep, parts) ==
    IF parts = <<>> THEN <<>>
    ELSE IF Len(parts) = 1 THEN parts[1]
    ELSE parts[1] \o sep \o join(sep, Tail(parts))

RECURSIVE SplitWsFrom(_, _, _)
SplitWsFrom(s, i, cur) ==
    IF i > Len(s) THEN (IF cur = <<>> THEN <<>> ELSE <<cur>>)
    ELSE IF IsWs(s[i])
         THEN (IF cur = <<>> THEN SplitWsFrom(s, i + 1, <<>>)
               ELSE <<cur>> \o SplitWsFrom(s, i + 1, <<>>))
         ELSE SplitWsFrom(s, i + 1, Append(cur, s[i]))

\* str.split() with no argument: the whitespace-separated words
split_ws(s) == SplitWsFrom(s, 1, <<>>)

RECURSIVE SplitByFrom(_, _, _, _)
SplitByFrom(s, sep, i, cur) ==
    IF i > Len(s) THEN <<cur>>
    ELSE IF MatchAt(sep, s, i - 1)
         THEN <<cur>> \o SplitByFrom(s, sep, i + Len(sep), <<>>)
         ELSE SplitByFrom(s, sep, i + 1, Append(cur, s[i]))

\* str.split(sep) with a non-empty separator
split(s, sep) == SplitByFrom(s, sep, 1, <<>>)

\* str.strip(chars): drop leading and trailing characters of the set
strip_chars(s, chars) ==
    LET keep == {i \in 1..Len(s) : s[i] \notin chars}
    IN  IF keep = {} THEN <<>>
        ELSE LET lo == CHOOSE i \in keep : \A j \in keep : i <= j
                 hi == CHOOSE i \in keep : \A j \in keep : i >= j
             IN  SubSeq(s, lo, hi)

\* str.strip()
strip(s) == strip_chars(s, WhiteSpace)

\* \b at offset i of s (between s[i] and s[i+1], 0 <= i <= len(s))
WordBoundary(s, i) ==
    LET before == i >= 1 /\ i <= Len(s) /\ IsWordChar(s[i])
        after  == i + 1 >= 1 /\ i + 1 <= Len(s) /\ IsWordChar(s[i + 1])
    IN  before # after

\* re.search(r'\b<word>\b', s) for a word without regex metacharacters
SearchWholeWord(word, s) ==
    \E i \in 0..(Len(s) - Len(word)) :
        /\ MatchAt(word, s, i)
        /\ WordBoundary(s, i)
        /\ WordBoundary(s, i + Len(word))

\* smallest element of a non-empty set of integers
Min(S) == CHOOSE x \in S : \A y \in S : x <= y

\* largest element of a non-empty set of integers
Max(S) == CHOOSE x \in S : \A y \in S : x >= y

\* elements of a Python list
Range(f) == {f[i] : i \in DOMAIN f}

\* length of the run of whitespace that starts at 1-based index i (\s+, greedy)
WsRun(s, i) ==
    Min({j \in i..(Len(s) + 1) : j = Len(s) + 1 \/ ~IsWs(s[j])}) - i

\* ------------------------------------------------------------------------
\* Literals of run_server.py
\* ------------------------------------------------------------------------
W_select == <<"s", "e", "l", "e", "c", "t">>

W_with == <<"w", "i", "t", "h">>

W_from == <<"f", "r", "o", "m">>

W_and == <<"a", "n", "d">>

W_or == <<"o", "r">>

\* the backquote character (a string literal cannot hold it)
Backquote == "BACKQUOTE"

\* ' select ' (line 201)
SpSelectSp == <<" ", "s", "e", "l", "e", "c", "t", " ">>

\* ' as ' (line 235)
SpAsSp == <<" ", "a", "s", " ">>

\* unsafe_keywords of is_safe_query
unsafe_keywords ==
    << <<"i", "n", "s", "e", "r", "t">>,
       <<"u", "p", "d", "a", "t", "e">>,
       <<"d", "e", "l", "e", "t", "e">>,
       <<"d", "r", "o", "p">>,
       <<"a", "l", "t", "e", "r">>,
       <<"t", "r", "u", "n", "c", "a", "t", "e">>,
       <<"c", "r", "e", "a", "t", "e">> >>

\* injection_keywords of is_sql_injection
injection_keywords ==
    << <<"'">>,
       <<"\"">>,
       <<"-", "-">>,
       <<"/", "*">>,
       <<"*", "/">>,
       <<"x", "p", "_">>,
       <<"e", "x", "e", "c">>,
       <<"s", "p", "_">>,
       <<"u", "n", "i", "o", "n", " ", "s", "e", "l", "e", "c", "t">>,
       <<"d", "r", "o", "p", " ", "t", "a", "b", "l", "e">>,
       <<"t", "r", "u", "n", "c", "a", "t", "e", " ", "t", "a", "b", "l", "e">>,
       <<"i", "n", "s", "e", "r", "t", " ", "i", "n", "t", "o">>,
       <<"u", "p", "d", "a", "t", "e", " ", "s", "e", "t">>,
       <<"d", "e", "l", "e", "t", "e", " ", "f", "r", "o", "m">>,
       <<"a", "l", "t", "e", "r", " ", "t", "a", "b", "l", "e">>,
       <<"c", "r", "e", "a", "t", "e", " ", "t", "a", "b", "l", "e">>,
       <<"s", "h", "u", "t", "d", "o", "w", "n">>,
       <<"w", "a", "i", "t", "f", "o", "r", " ", "d", "e", "l", "a", "y">> >>

\* ------------------------------------------------------------------------
\* Sensitivity registry
\* ------------------------------------------------------------------------
\* get_sensitive_fields(): the names of the SENSITIVE_FIELDS environment
\* variable, split at ';', stripped, lower-cased, empty names dropped.  The
\* function builds default_fields and returns env_fields only.
get_sensitive_fields(env) ==
    LET parts    == split(env, <<";">>)
        stripped == SelectSeq(parts, LAMBDA f : strip(f) # <<>>)
    IN  [i \in 1..Len(stripped) |-> lower(strip(stripped[i]))]

\* ------------------------------------------------------------------------
\* is_safe_query: the steps that do not touch the database
\* ------------------------------------------------------------------------
\* line 194: ' '.join(sql.split()).lower()
normalize(sql) == lower(join(<<" ">>, split_ws(sql)))

\* lines 197-202: starts with select or with; with needs a later ' select '
shape_ok(n) ==
    /\ startswith(n, W_select) \/ startswith(n, W_with)
    /\ ~(startswith(n, W_with) /\ ~Contains(SpSelectSp, n))

\* line 207: any(f" {keyword} " in f" {sql} " for keyword in unsafe_keywords)
has_unsafe_keyword(n) ==
    \E k \in 1..Len(unsafe_keywords) :
        Contains(<<" ">> \o unsafe_keywords[k] \o <<" ">>, <<" ">> \o n \o <<" ">>)

\* line 215-216: re.search compiles fr'\b{field}\b' first.  A name with an
\* opening parenthesis that is never closed does not compile: re.error.
\* (Names are identifiers, or malformed in this way.)
pattern_error(field) ==
    \E i \in 1..Len(field) :
        field[i] = "(" /\ \A j \in (i + 1)..Len(field) : field[j] # ")"

\* str(e) of that re.error
RegexErrorMsg == "error: missing ), unterminated subpattern"

\* lines 214-217: the loop over the sensitive names, in list order, stops at
\* the first name whose pattern does not compile ("error") or is found in the
\* text as a whole word ("match"); "none" when it runs to the end
sensitive_word_scan(n, sensitive_fields) ==
    LET hits == {k \in 1..Len(sensitive_fields) :
                    \/ pattern_error(sensitive_fields[k])
                    \/ SearchWholeWord(sensitive_fields[k], n)}
    IN  IF hits = {} THEN "none"
        ELSE IF pattern_error(sensitive_fields[Min(hits)]) THEN "error"
        ELSE "match"

\* mutant: the sensitive names are looked for before the shape is checked
precheck_outcome_scan_first(n, sensitive_fields) ==
    LET scan == sensitive_word_scan(n, sensitive_fields)
    IN  IF scan = "error" THEN "raise"
        ELSE IF scan = "match" THEN "reject"
        ELSE IF ~shape_ok(n) \/ has_unsafe_keyword(n) THEN "reject"
        ELSE "fields"

\* lines 197-217, in the order of the code: shape, blocklist, then the
\* sensitive names; "fields" when the text goes on to the projection check
precheck_outcome(n, sensitive_fields) ==
    IF ~shape_ok(n) THEN "reject"
    ELSE IF has_unsafe_keyword(n) THEN "reject"
    ELSE LET scan == sensitive_word_scan(n, sensitive_fields)
         IN  IF scan = "error" THEN "raise"
             ELSE IF scan = "match" THEN "reject"
             ELSE "fields"

\* line 221, one line: '--.*$' removes from the first -- to the end of the line
CutLineComment(line) ==
    IF Contains(<<"-", "-">>, line)
    THEN SubSeq(line, 1, Min({i \in 0..Len(line) : MatchAt(<<"-", "-">>, line, i)}))
    ELSE line

\* line 221: re.sub(r'--.*$', '', sql, flags=re.MULTILINE)
remove_line_comments(s) ==
    LET lines == split(s, <<"\n">>)
    IN  join(<<"\n">>, [i \in 1..Len(lines) |-> CutLineComment(lines[i])])

RECURSIVE remove_block_comments(_)
\* line 222: re.sub(r'/\*.*?\*/', '', sql, flags=re.DOTALL)
remove_block_comments(s) ==
    LET closes(i) == {j \in (i + 2)..(Len(s) - 2) : MatchAt(<<"*", "/">>, s, j)}
        opens     == {i \in 0..(Len(s) - 2) :
                         MatchAt(<<"/", "*">>, s, i) /\ closes(i) # {}}
    IN  IF opens = {} THEN s
        ELSE LET i == Min(opens)
                 j == Min(closes(i))
             IN  SubSeq(s, 1, i) \o remove_block_comments(SubSeq(s, j + 3, Len(s)))

\* lines 221-222
remove_comments(n) == remove_block_comments(remove_line_comments(n))

\* \s+from matches at offset q: a whitespace run, then 'from'
WsFromAt(s, q) ==
    /\ q + 1 <= Len(s)
    /\ IsWs(s[q + 1])
    /\ MatchAt(W_from, s, q + WsRun(s, q + 1))

\* the matches <<p, k, q>> of r'select\s+(.*?)\s+from' that start at offset p:
\* k whitespace characters after 'select', the group ends at offset q
SelectFromAt(s, p) ==
    IF ~(MatchAt(W_select, s, p) /\ p + 7 <= Len(s) /\ IsWs(s[p + 7])) THEN {}
    ELSE {kq \in (1..WsRun(s, p + 7)) \X ((p + 7)..Len(s)) :
             /\ kq[2] >= p + 6 + kq[1]
             /\ \A c \in (p + 6 + kq[1] + 1)..kq[2] : s[c] # "\n"
             /\ WsFromAt(s, kq[2])}

\* lines 225-226: matches[0] of re.findall(select_pattern, sql), as a
\* one-element list, or the empty list when there is no match
select_matches(s) ==
    LET starts == {p \in 0..(Len(s) - 6) : SelectFromAt(s, p) # {}}
    IN  IF starts = {} THEN <<>>
        ELSE LET p  == Min(starts)
                 ms == SelectFromAt(s, p)
                 k  == Max({kq[1] : kq \in ms})
                 q  == Min({kq[2] : kq \in {m \in ms : m[1] = k}})
             IN  <<SubSeq(s, p + 6 + k + 1, q)>>

\* lines 229-230: matches[0].split(','), each stripped and lower-cased
selected_fields(s) ==
    LET matches == select_matches(s)
    IN  IF matches = <<>> THEN <<>>
        ELSE LET parts == split(matches[1], <<",">>)
             IN  [i \in 1..Len(parts) |-> lower(strip(parts[i]))]

\* lines 235-237: drop the alias, then the table prefix
bare_field(field) ==
    LET no_alias == strip(split(field, SpAsSp)[1])
        dotted   == split(no_alias, <<".">>)
    IN  strip(dotted[Len(dotted)])

\* lines 242-245: re.search(r'from\s+([^\s;]+)', sql), group 1 stripped of
\* backquotes, as a one-element list, or the empty list when no match
star_table(s) ==
    LET nameStart(p) == p + 4 + WsRun(s, p + 5) + 1
        isName(c)    == ~IsWs(c) /\ c # ";"
        starts == {p \in 0..(Len(s) - 4) :
                      /\ MatchAt(W_from, s, p)
                      /\ p + 5 <= Len(s)
                      /\ IsWs(s[p + 5])
                      /\ nameStart(p) <= Len(s)
                      /\ isName(s[nameStart(p)])}
    IN  IF starts = {} THEN <<>>
        ELSE LET b == nameStart(Min(starts))
                 e == Min({j \in b..Len(s) : j = Len(s) \/ ~isName(s[j + 1])})
             IN  <<strip_chars(SubSeq(s, b, e), {Backquote})>>

\* lines 264-270: the field is a sensitive name, or has one right after '('
\* or ','
field_is_sensitive(field, sensitive_fields) ==
    \/ field \in Range(sensitive_fields)
    \/ \E k \in 1..Len(sensitive_fields) :
          \/ Contains(<<"(">> \o sensitive_fields[k], field)
          \/ Contains(<<",">> \o sensitive_fields[k], field)

\* lines 254-257: some column of the DESCRIBE result is a sensitive name
columns_sensitive(columns, sensitive_fields) ==
    \E c \in 1..Len(columns) : lower(columns[c]) \in Range(sensitive_fields)

\* ------------------------------------------------------------------------
\* is_sql_injection
\* ------------------------------------------------------------------------
\* r'\b(and|or)\b\s+' matches at offset i; the set of offsets where it ends
AndOrEnds(s, i) ==
    {i + Len(w) + WsRun(s, i + Len(w) + 1) : w \in
        {w \in {W_and, W_or} :
            /\ MatchAt(w, s, i)
            /\ WordBoundary(s, i)
            /\ WordBoundary(s, i + Len(w))
            /\ WsRun(s, i + Len(w) + 1) >= 1}}

\* length of the run of characters of the class that starts at 1-based index i
ClassRun(s, i, class) ==
    Min({j \in i..(Len(s) + 1) : j = Len(s) + 1 \/ s[j] \notin class}) - i

\* line 298: re.search(r'\b(and|or)\b\s+\d+\s*=\s*\d+', query_lower)
tautology_number(s) ==
    \E i \in 0..Len(s) : \E e \in AndOrEnds(s, i) :
        LET d  == ClassRun(s, e + 1, Digits)
            eq == e + d + WsRun(s, e + d + 1) + 1
        IN  /\ d >= 1
            /\ eq <= Len(s)
            /\ s[eq] = "="
            /\ ClassRun(s, eq + WsRun(s, eq + 1) + 1, Digits) >= 1

\* line 301: re.search(r'\b(and|or)\b\s+\w+\s*=\s*\w+\s*--', query_lower)
tautology_comment(s) ==
    \E i \in 0..Len(s) : \E e \in AndOrEnds(s, i) :
        LET d  == ClassRun(s, e + 1, WordChars)
            eq == e + d + WsRun(s, e + d + 1) + 1
            v  == eq + WsRun(s, eq + 1)
            r  == ClassRun(s, v + 1, WordChars)
        IN  /\ d >= 1
            /\ eq <= Len(s)
            /\ s[eq] = "="
            /\ r >= 1
            /\ MatchAt(<<"-", "-">>, s, v + r + WsRun(s, v + r + 1))

\* lines 278-304
is_sql_injection(query) ==
    LET query_lower == lower(query)
    IN  \/ \E k \in 1..Len(injection_keywords) :
              Contains(injection_keywords[k], query_lower)
        \/ tautology_number(query_lower)
        \/ tautology_comment(query_lower)

\* ------------------------------------------------------------------------
\* Bounds, the database the server talks to, and the callers' inputs
\* ------------------------------------------------------------------------
\* calls that write the audit log are started while it is shorter than this
MaxLog == 2

\* largest result set a statement returns
MaxRows == 2

\* largest limit passed to get_query_logs
MaxLimit == 3

\* requests handled at the same time
MaxThreads == 3

\* clock ticks per second: strftime('%Y-%m-%d %H:%M:%S') drops the fraction
TicksPerSecond == 2

T_student == <<"s", "t", "u", "d", "e", "n", "t">>

T_employee == <<"e", "m", "p", "l", "o", "y", "e", "e">>

T_nosuch == <<"n", "o", "s", "u", "c", "h">>

\* the live schema: SHOW TABLES and DESCRIBE answer from it
Schema ==
    << [name |-> T_student,  columns |-> << <<"i", "d">>, <<"n", "a", "m", "e">> >>],
       [name |-> T_employee, columns |-> << <<"i", "d">>, <<"S", "a", "l", "a", "r", "y">> >>] >>

all_table_names == [t \in 1..Len(Schema) |-> Schema[t].name]

TableExists(name) == \E t \in 1..Len(Schema) : Schema[t].name = name

ColumnsOf(name) == Schema[CHOOSE t \in 1..Len(Schema) : Schema[t].name = name].columns

\* the result sets a statement may return: rows 1..n
ResultSets == {[r \in 1..n |-> r] : n \in 0..MaxRows}

Sql_select_id ==
    <<"s", "e", "l", "e", "c", "t", " ", "i", "d", " ", "f", "r", "o", "m", " ",
      "s", "t", "u", "d", "e", "n", "t">>

Sql_drop ==
    <<"D", "R", "O", "P", " ", "T", "A", "B", "L", "E", " ",
      "s", "t", "u", "d", "e", "n", "t">>

Sql_star_employee ==
    <<"S", "E", "L", "E", "C", "T", " ", "*", " ", "F", "R", "O", "M", " ",
      "e", "m", "p", "l", "o", "y", "e", "e">>

Sql_stacked_update ==
    <<"s", "e", "l", "e", "c", "t", " ", "i", "d", " ", "f", "r", "o", "m", " ",
      "s", "t", "u", "d", "e", "n", "t", ";", "u", "p", "d", "a", "t", "e", " ",
      "s", "t", "u", "d", "e", "n", "t", " ", "s", "e", "t", " ", "i", "d", "=", "2">>

Sql_two_stars_quote ==
    <<"s", "e", "l", "e", "c", "t", " ", "*", ",", " ", "s", ".", "*", " ",
      "f", "r", "o", "m", " ", "s", "t", "u", "d", "e", "n", "t", " ", "s", " ",
      "w", "h", "e", "r", "e", " ", "n", "a", "m", "e", " ", "=", " ", "'", "x", "'">>

\* the SQL texts callers pass to query_data
SqlInputs ==
    {Sql_select_id, Sql_drop, Sql_star_employee, Sql_stacked_update,
     Sql_two_stars_quote}

\* the values of the SENSITIVE_FIELDS environment variable: unset, or
\* ' Salary;phone'
EnvInputs == {<<>>, <<" ", "S", "a", "l", "a", "r", "y", ";", "p", "h", "o", "n", "e">>}

\* the table_names arguments of get_schema: None, or a list of names
TableNameInputs ==
    {[given |-> FALSE, names |-> <<>>],
     [given |-> TRUE,  names |-> <<T_student>>],
     [given |-> TRUE,  names |-> <<T_nosuch>>]}

\* ------------------------------------------------------------------------
\* State
\* ------------------------------------------------------------------------
VARIABLES
    query_logs,     \* the global audit log (line 27)
    now,            \* the clock time.time() reads, in ticks; it advances
                    \* between two log_query calls
    env,            \* os.environ['SENSITIVE_FIELDS']
    open_conns,     \* connections opened by get_connection() and not closed
    pc,             \* position of the tool call in progress, "idle" if none
    tool,           \* the tool called: query_data, get_schema, get_query_logs
    sql,            \* query_data: the sql argument
    table_names,    \* get_schema: the table_names argument
    limit,          \* get_query_logs: the limit argument
    safe,           \* query_data: the value is_safe_query returned
    work,           \* is_safe_query: selected_fields; get_schema: table_names_to_query
    idx,            \* position of the for loop over work
    cursor_bound,   \* is_safe_query: the local variable cursor has been assigned
    txn,            \* query_data: state of the transaction on its connection
    results,        \* query_data: the rows fetchall returned
    err,            \* query_data: str(e) of the exception being handled
    result,         \* what the call returned or raised
    trace,          \* history: verdicts, driver calls, failed re calls of this call
    logs0,          \* history: len(query_logs) when the call started
    conns0,         \* history: open_conns when the call started
    threads         \* requests in progress at the same time: per request,
                    \* its position and the locals of log_query or of
                    \* get_query_logs

\* the state of the server process
servervars ==
    <<query_logs, now, env, open_conns, pc, tool, sql, table_names, limit, safe,
      work, idx, cursor_bound, txn, results, err, result, trace, logs0, conns0,
      threads>>

\* The two front ends.  Each runs in a process of its own, with its own copy
\* of the module LLM.few_shot_example.
VARIABLES
    FEW_SHOT_EXAMPLES,      \* command line client: the list object of the module
    conversation_history,   \* MCPClient.conversation_history, a reference: to
                            \* the list FEW_SHOT_EXAMPLES, or to a list of its own
    session_id,             \* MCPClient.session_id
    use_few_shot,           \* MCPClient.use_few_shot
    app_FEW_SHOT_EXAMPLES,  \* Streamlit app: the list object of the module
    agent_conversation_history,  \* st.session_state.agent_conversation_history
    app_session_id,         \* st.session_state.session_id
    app_use_few_shot,       \* st.session_state.use_few_shot
    uuids,                  \* history: uuid4() values drawn so far, per front end
    exchanges,              \* history: natural-language exchanges so far, per front end
    last,                   \* history: the last command a front end handled
    servers                 \* history: the server processes the app's commands
                            \* started, oldest first

clientvars ==
    <<FEW_SHOT_EXAMPLES, conversation_history, session_id, use_few_shot,
      app_FEW_SHOT_EXAMPLES, agent_conversation_history, app_session_id,
      app_use_few_shot, uuids, exchanges, last, servers>>

vars == <<servervars, clientvars>>

\* Python None where a string is expected
None == "None"

\* the error messages of query_data (lines 310, 317)
UnsafeMsg ==
    "Potentially unsafe query detected. Only SELECT queries are allowed. No sensitive fields like password/salary/etc."

InjectionMsg == "Potentially SQL injection detected!"

\* str(e) of the exception a failed driver call raises
DriverMessage(op) ==
    CASE op = "connect"           -> "OperationalError: connect"
      [] op = "cursor"            -> "Error: cursor"
      [] op = "set_read_only"     -> "OperationalError: SET TRANSACTION READ ONLY"
      [] op = "start_transaction" -> "OperationalError: START TRANSACTION"
      [] op = "execute"           -> "ProgrammingError: execute"
      [] op = "fetchall"          -> "OperationalError: fetchall"
      [] op = "commit"            -> "OperationalError: commit"
      [] op = "rollback"          -> "InterfaceError: rollback"
      [] op = "show_tables"       -> "OperationalError: SHOW TABLES"
      [] op = "describe"          -> "ProgrammingError: DESCRIBE"

\* one entry of trace: the function that made the call, the call, its text
\* argument, and whether it returned normally (for the two validator
\* functions: the boolean they returned)
Ev(by, op, arg, ok) == [by |-> by, op |-> op, arg |-> arg, ok |-> ok]

NoResult ==
    [kind |-> "none", success |-> FALSE, error |-> None, results |-> <<>>,
     rowCount |-> 0, logs |-> <<>>, total_queries |-> 0, tables |-> <<>>]

\* {"success": False, "error": msg}
failure_result(msg) == [NoResult EXCEPT !.kind = "return", !.error = msg]

\* the exception leaves the tool function
raised(msg) == [NoResult EXCEPT !.kind = "raise", !.error = msg]

\* mutant: the rows of fetchmany(1) instead of all rows
success_result_first_row(rows) ==
    LET first == IF rows = <<>> THEN <<>> ELSE <<rows[1]>>
    IN  [NoResult EXCEPT !.kind = "return", !.success = TRUE,
                         !.results = first, !.rowCount = Len(first)]

\* lines 343-347: {"success": True, "results": results, "rowCount": len(results)}
success_result(rows) ==
    [NoResult EXCEPT !.kind = "return", !.success = TRUE,
                     !.results = rows, !.rowCount = Len(rows)]

\* lines 39-44: the entry log_query builds
log_entry(t, operation, success, error) ==
    [timestamp |-> [repr |-> "float", t |-> t], operation |-> operation,
     success |-> success, error_msg |-> error]

\* mutant: query_logs.insert(0, log_entry)
log_query_prepend(logs, entry) == <<entry>> \o logs

\* line 47: query_logs.append(log_entry)
log_query(logs, entry) == Append(logs, entry)

\* ------------------------------------------------------------------------
\* Initial state and the calls
\* ------------------------------------------------------------------------
\* {"role": role, "content": content}
Entry(role, content) == [role |-> role, content |-> content]

\* few_shot_example.py: the list literal, four example exchanges
few_shot_literal ==
    << Entry("user", "example 1: question"), Entry("assistant", "example 1: answer"),
       Entry("user", "example 2: question"), Entry("assistant", "example 2: answer"),
       Entry("user", "example 3: question"), Entry("assistant", "example 3: answer"),
       Entry("user", "example 4: question"), Entry("assistant", "example 4: answer") >>

\* a reference to the list object FEW_SHOT_EXAMPLES
SharedList == [ref |-> "FEW_SHOT_EXAMPLES", own |-> <<>>]

\* a reference to a list no other name refers to
OwnList(items) == [ref |-> "own", own |-> items]

\* no answer of the language model
NoAnswer == [kind |-> "none", direct_response |-> "", sql |-> <<>>, has_thoughts |-> FALSE]

\* the last command: front end, command, its text, the conversation history
\* and the session id before it, what it returned, the tool calls it sent;
\* for a natural-language exchange whether get_prompt worked and the answer
\* the language model has for the query; for a command of the app how
\* create_client went, the number of server processes started before it
\* and the log entries it displayed
NoCommand ==
    [front |-> "none", cmd |-> "none", query |-> None, history0 |-> <<>>, id0 |-> 0,
     response |-> None, tool_calls |-> <<>>, prompt_ok |-> FALSE, llm |-> NoAnswer,
     connect |-> "none", servers0 |-> 0, logs |-> <<>>]

\* client.py lines 46-53 (MCPClient.__init__) and app.py lines 13-18, 179-180
ClientInit ==
    /\ FEW_SHOT_EXAMPLES = few_shot_literal
    /\ use_few_shot = TRUE
    /\ conversation_history = SharedList
    /\ session_id = 1
    /\ app_FEW_SHOT_EXAMPLES = few_shot_literal
    /\ agent_conversation_history = <<>>
    /\ app_session_id = 1
    /\ app_use_few_shot = TRUE
    /\ uuids = [cli |-> 1, app |-> 1]
    /\ exchanges = [cli |-> 0, app |-> 0]
    /\ last = NoCommand
    /\ servers = <<>>

NoTableNames == [given |-> FALSE, names |-> <<>>]

\* the requests the server may be handling at the same time
Threads == 1..MaxThreads

\* a request that has not arrived yet
IdleThread ==
    [op |-> "none", pc |-> "idle", limit |-> 0, log_entry |-> <<>>, logs |-> <<>>,
     aliased |-> FALSE, i |-> 0, formatted_logs |-> <<>>, result |-> NoResult]

Init ==
    /\ query_logs = <<>>
    /\ now = 0
    /\ env \in EnvInputs
    /\ open_conns = 0
    /\ pc = "idle"
    /\ tool = "none"
    /\ sql = <<>>
    /\ table_names = NoTableNames
    /\ limit = 0
    /\ safe = FALSE
    /\ work = <<>>
    /\ idx = 0
    /\ cursor_bound = FALSE
    /\ txn = "none"
    /\ results = <<>>
    /\ err = None
    /\ result = NoResult
    /\ trace = <<>>
    /\ logs0 = 0
    /\ conns0 = 0
    /\ threads = [t \in Threads |-> IdleThread]
    /\ ClientInit

\* what no step of a call changes: the environment and the arguments
callvars == <<env, tool, sql, table_names, limit, logs0, conns0>>

\* the sql text is_safe_query works on after lines 194 and 221-222
stripped_sql == remove_comments(normalize(sql))

\* mutant: the list is loaded once the audit log has an entry
sensitive_fields_after_first_log ==
    IF query_logs = <<>> THEN <<>> ELSE get_sensitive_fields(env)

\* line 211
sensitive_fields == get_sensitive_fields(env)

\* a client calls the tool query_data(sql)
query_data_call(s) ==
    /\ pc = "idle"
    /\ Len(query_logs) < MaxLog
    /\ tool' = "query_data"
    /\ sql' = s
    /\ pc' = "safe_precheck"
    /\ trace' = <<>>
    /\ logs0' = Len(query_logs)
    /\ conns0' = open_conns
    /\ UNCHANGED <<threads, clientvars, query_logs, now, env, open_conns, table_names, limit, safe,
                   work, idx, cursor_bound, txn, results, err, result>>

\* is_safe_query, lines 194-230: shape, blocklist, whole-word sensitive
\* names, then the projection list.  Lines 194-217 are outside the try of
\* line 219: the re.error of line 216 leaves is_safe_query, and query_data
\* (line 309) with it.
is_safe_query_precheck ==
    /\ pc = "safe_precheck"
    /\ LET n       == normalize(sql)
           outcome == precheck_outcome(n, sensitive_fields)
       IN  CASE outcome = "reject" ->
                   /\ safe' = FALSE
                   /\ pc' = "validated"
                   /\ UNCHANGED <<work, idx, result, trace>>
             [] outcome = "raise" ->
                   /\ trace' = Append(trace, Ev("is_safe_query", "re.search", n, FALSE))
                   /\ result' = raised(RegexErrorMsg)
                   /\ pc' = "done"
                   /\ UNCHANGED <<safe, work, idx>>
             [] outcome = "fields" ->
                   /\ work' = selected_fields(remove_comments(n))
                   /\ idx' = 1
                   /\ pc' = "safe_field"
                   /\ UNCHANGED <<safe, result, trace>>
    /\ UNCHANGED <<threads, clientvars, callvars, query_logs, now, open_conns, cursor_bound, txn, results,
                   err>>

\* is_safe_query, lines 233-245 and 261-276: one turn of the loop over
\* selected_fields, up to the database lookup of a '*' field
is_safe_query_field ==
    /\ pc = "safe_field"
    /\ IF idx > Len(work)
       THEN /\ safe' = TRUE
            /\ pc' = "validated"
            /\ UNCHANGED idx
       ELSE LET field == bare_field(work[idx])
            IN  IF field = <<"*">>
                THEN /\ IF star_table(stripped_sql) # <<>>
                        THEN pc' = "safe_connect" /\ UNCHANGED idx
                        ELSE idx' = idx + 1 /\ UNCHANGED pc
                     /\ UNCHANGED safe
                ELSE IF field_is_sensitive(field, sensitive_fields)
                     THEN /\ safe' = FALSE
                          /\ pc' = "validated"
                          /\ UNCHANGED idx
                     ELSE /\ idx' = idx + 1
                          /\ UNCHANGED <<pc, safe>>
    /\ UNCHANGED <<threads, clientvars, callvars, query_logs, now, open_conns, work, cursor_bound, txn,
                   results, err, result, trace>>

\* is_safe_query, line 247: get_connection(); an exception goes to line 271
is_safe_query_connect(ok) ==
    /\ pc = "safe_connect"
    /\ trace' = Append(trace, Ev("is_safe_query", "connect", <<>>, ok))
    /\ IF ok
       THEN /\ open_conns' = open_conns + 1
            /\ pc' = "safe_cursor"
            /\ UNCHANGED safe
       ELSE /\ safe' = FALSE
            /\ pc' = "validated"
            /\ UNCHANGED open_conns
    /\ UNCHANGED <<threads, clientvars, callvars, query_logs, now, work, idx, cursor_bound, txn, results,
                   err, result>>

\* is_safe_query, line 249: conn.cursor().  When it raises, the finally
\* block (lines 258-260) runs cursor.close() first: with cursor not yet
\* assigned in this call that raises UnboundLocalError and conn.close() is
\* skipped; with cursor left over from an earlier '*' field both closes run.
is_safe_query_cursor(ok) ==
    /\ pc = "safe_cursor"
    /\ IF ok
       THEN /\ cursor_bound' = TRUE
            /\ pc' = "safe_describe"
            /\ trace' = Append(trace, Ev("is_safe_query", "cursor", <<>>, TRUE))
            /\ UNCHANGED <<safe, open_conns>>
       ELSE /\ safe' = FALSE
            /\ pc' = "validated"
            /\ IF cursor_bound
               THEN /\ open_conns' = open_conns - 1
                    /\ trace' = trace \o <<Ev("is_safe_query", "cursor", <<>>, FALSE),
                                           Ev("is_safe_query", "close", <<>>, TRUE)>>
               ELSE /\ open_conns' = open_conns
                    /\ trace' = Append(trace, Ev("is_safe_query", "cursor", <<>>, FALSE))
            /\ UNCHANGED cursor_bound
    /\ UNCHANGED <<threads, clientvars, callvars, query_logs, now, work, idx, txn, results, err, result>>

\* is_safe_query, lines 251-260: DESCRIBE the table and fetch its columns,
\* check them, close cursor and connection.  DESCRIBE raises for a table
\* that does not exist; either call may raise for other reasons.
is_safe_query_describe(ok) ==
    /\ pc = "safe_describe"
    /\ LET table     == star_table(stripped_sql)[1]
           succeeded == ok /\ TableExists(table)
       IN  /\ trace' = trace \o <<Ev("is_safe_query", "describe", table, succeeded),
                                  Ev("is_safe_query", "close", <<>>, TRUE)>>
           /\ IF succeeded /\ ~columns_sensitive(ColumnsOf(table), sensitive_fields)
              THEN /\ idx' = idx + 1
                   /\ pc' = "safe_field"
                   /\ UNCHANGED safe
              ELSE /\ safe' = FALSE
                   /\ pc' = "validated"
                   /\ UNCHANGED idx
    /\ open_conns' = open_conns - 1
    /\ UNCHANGED <<threads, clientvars, callvars, query_logs, now, work, cursor_bound, txn, results, err,
                   result>>

\* mutant: the injection check does not stop the call
validation_outcome_no_injection(safe_verdict, injection_verdict) ==
    IF ~safe_verdict THEN "unsafe" ELSE "accepted"

\* mutant: the verdict of is_safe_query does not stop the call
validation_outcome_no_safety(safe_verdict, injection_verdict) ==
    IF injection_verdict THEN "injection" ELSE "accepted"

\* query_data, lines 309-323: which way the two checks send the call
validation_outcome(safe_verdict, injection_verdict) ==
    IF ~safe_verdict THEN "unsafe"
    ELSE IF injection_verdict THEN "injection"
    ELSE "accepted"

\* query_data, lines 309-323: reject with a log entry, or go on to execute
query_data_validated ==
    /\ pc = "validated"
    /\ LET injection == is_sql_injection(sql)
           outcome   == validation_outcome(safe, injection)
           msg       == IF outcome = "unsafe" THEN UnsafeMsg ELSE InjectionMsg
           checks    ==
               IF safe
               THEN <<Ev("query_data", "is_safe_query", sql, TRUE),
                      Ev("query_data", "is_sql_injection", sql, injection)>>
               ELSE <<Ev("query_data", "is_safe_query", sql, FALSE)>>
       IN  /\ trace' = trace \o checks
           /\ IF outcome = "accepted"
              THEN /\ pc' = "connect"
                   /\ UNCHANGED <<query_logs, now, result>>
              ELSE /\ query_logs' = log_query(query_logs, log_entry(now, sql, FALSE, msg))
                   /\ now' = now + 1
                   /\ result' = failure_result(msg)
                   /\ pc' = "done"
    /\ UNCHANGED <<threads, clientvars, callvars, open_conns, safe, work, idx, cursor_bound, txn,
                   results, err>>

\* ------------------------------------------------------------------------
\* query_data: the execution envelope, lines 324-359
\* ------------------------------------------------------------------------
\* lines 356-359 with the connection open: cursor.close(), conn.close()
ConnClosed(by) == Ev(by, "close", <<>>, TRUE)

\* line 324: get_connection() outside any try; the exception leaves the tool
query_data_connect(ok) ==
    /\ pc = "connect"
    /\ trace' = Append(trace, Ev("query_data", "connect", <<>>, ok))
    /\ IF ok
       THEN /\ open_conns' = open_conns + 1
            /\ pc' = "cursor"
            /\ UNCHANGED result
       ELSE /\ result' = raised(DriverMessage("connect"))
            /\ pc' = "done"
            /\ UNCHANGED open_conns
    /\ UNCHANGED <<threads, clientvars, callvars, query_logs, now, safe, work, idx, cursor_bound, txn,
                   results, err>>

\* a driver call of lines 328-332 raised: only the finally block handles it
SetupFailed(op) ==
    /\ trace' = trace \o <<Ev("query_data", op, <<>>, FALSE), ConnClosed("query_data")>>
    /\ open_conns' = open_conns - 1
    /\ result' = raised(DriverMessage(op))
    /\ pc' = "done"
    /\ UNCHANGED txn

\* mutant: the envelope goes from the cursor to START TRANSACTION
query_data_cursor_skips_read_only(ok) ==
    /\ pc = "cursor"
    /\ IF ok
       THEN /\ trace' = Append(trace, Ev("query_data", "cursor", <<>>, TRUE))
            /\ pc' = "start_transaction"
            /\ UNCHANGED <<open_conns, result, txn>>
       ELSE SetupFailed("cursor")
    /\ UNCHANGED <<threads, clientvars, callvars, query_logs, now, safe, work, idx, cursor_bound, results, err>>

\* line 328: conn.cursor(pymysql.cursors.DictCursor)
query_data_cursor(ok) ==
    /\ pc = "cursor"
    /\ IF ok
       THEN /\ trace' = Append(trace, Ev("query_data", "cursor", <<>>, TRUE))
            /\ pc' = "set_read_only"
            /\ UNCHANGED <<open_conns, result, txn>>
       ELSE SetupFailed("cursor")
    /\ UNCHANGED <<threads, clientvars, callvars, query_logs, now, safe, work, idx, cursor_bound, results, err>>

\* line 331: cursor.execute("SET TRANSACTION READ ONLY")
query_data_set_read_only(ok) ==
    /\ pc = "set_read_only"
    /\ IF ok
       THEN /\ trace' = Append(trace, Ev("query_data", "set_read_only", <<>>, TRUE))
            /\ txn' = "read_only"
            /\ pc' = "start_transaction"
            /\ UNCHANGED <<open_conns, result>>
       ELSE SetupFailed("set_read_only")
    /\ UNCHANGED <<threads, clientvars, callvars, query_logs, now, safe, work, idx, cursor_bound, results, err>>

\* line 332: cursor.execute("START TRANSACTION")
query_data_start_transaction(ok) ==
    /\ pc = "start_transaction"
    /\ IF ok
       THEN /\ trace' = Append(trace, Ev("query_data", "start_transaction", <<>>, TRUE))
            /\ txn' = "active"
            /\ pc' = "execute"
            /\ UNCHANGED <<open_conns, result>>
       ELSE SetupFailed("start_transaction")
    /\ UNCHANGED <<threads, clientvars, callvars, query_logs, now, safe, work, idx, cursor_bound, results, err>>

\* a driver call of lines 335-337 raised: line 348 catches it
ExecutionFailed(op, arg) ==
    /\ trace' = Append(trace, Ev("query_data", op, arg, FALSE))
    /\ err' = DriverMessage(op)
    /\ pc' = "rollback"

\* line 335: cursor.execute(sql)
query_data_execute(ok) ==
    /\ pc = "execute"
    /\ IF ok
       THEN /\ trace' = Append(trace, Ev("query_data", "execute", sql, TRUE))
            /\ pc' = "fetchall"
            /\ UNCHANGED err
       ELSE ExecutionFailed("execute", sql)
    /\ UNCHANGED <<threads, clientvars, callvars, query_logs, now, open_conns, safe, work, idx, cursor_bound,
                   txn, results, result>>

\* line 336: results = cursor.fetchall()
query_data_fetchall(ok, rows) ==
    /\ pc = "fetchall"
    /\ IF ok
       THEN /\ trace' = Append(trace, Ev("query_data", "fetchall", <<>>, TRUE))
            /\ results' = rows
            /\ pc' = "commit"
            /\ UNCHANGED err
       ELSE /\ ExecutionFailed("fetchall", <<>>)
            /\ UNCHANGED results
    /\ UNCHANGED <<threads, clientvars, callvars, query_logs, now, open_conns, safe, work, idx, cursor_bound,
                   txn, result>>

\* lines 337-347 and 356-359: commit, log the success, return the rows
query_data_commit(ok) ==
    /\ pc = "commit"
    /\ IF ok
       THEN /\ trace' = trace \o <<Ev("query_data", "commit", <<>>, TRUE),
                                   ConnClosed("query_data")>>
            /\ txn' = "committed"
            /\ query_logs' = log_query(query_logs, log_entry(now, sql, TRUE, None))
            /\ now' = now + 1
            /\ result' = success_result(results)
            /\ open_conns' = open_conns - 1
            /\ pc' = "done"
            /\ UNCHANGED err
       ELSE /\ ExecutionFailed("commit", <<>>)
            /\ UNCHANGED <<txn, query_logs, now, result, open_conns>>
    /\ UNCHANGED <<threads, clientvars, callvars, safe, work, idx, cursor_bound, results>>

\* lines 348-359: conn.rollback(), log the failure, return it; an exception
\* raised by rollback itself is handled by the finally block only
query_data_rollback(ok) ==
    /\ pc = "rollback"
    /\ trace' = trace \o <<Ev("query_data", "rollback", <<>>, ok), ConnClosed("query_data")>>
    /\ open_conns' = open_conns - 1
    /\ pc' = "done"
    /\ IF ok
       THEN /\ txn' = "rolled_back"
            /\ query_logs' = log_query(query_logs, log_entry(now, sql, FALSE, err))
            /\ now' = now + 1
            /\ result' = failure_result(err)
       ELSE /\ result' = raised(DriverMessage("rollback"))
            /\ UNCHANGED <<txn, query_logs, now>>
    /\ UNCHANGED <<threads, clientvars, callvars, safe, work, idx, cursor_bound, results, err>>

\* ------------------------------------------------------------------------
\* get_schema, lines 89-158
\* ------------------------------------------------------------------------
T_get_schema == <<"g", "e", "t", "_", "s", "c", "h", "e", "m", "a">>

T_get_schema_for ==
    <<"g", "e", "t", "_", "s", "c", "h", "e", "m", "a", " ", "f", "o", "r", " ",
      "t", "a", "b", "l", "e", "s", ":", " ">>

\* str() of a list of table names: ['student', 'employee']
list_repr(names) ==
    <<"[">> \o join(<<",", " ">>, [i \in 1..Len(names) |-> <<"'">> \o names[i] \o <<"'">>])
            \o <<"]">>

NoTablesMsg == "None of the specified tables exist in the database"

\* a client calls the tool get_schema(table_names)
get_schema_call(names) ==
    /\ pc = "idle"
    /\ Len(query_logs) < MaxLog
    /\ tool' = "get_schema"
    /\ table_names' = names
    /\ pc' = "schema_connect"
    /\ trace' = <<>>
    /\ logs0' = Len(query_logs)
    /\ conns0' = open_conns
    /\ UNCHANGED <<threads, clientvars, query_logs, now, env, open_conns, sql, limit, safe, work, idx,
                   cursor_bound, txn, results, err, result>>

\* line 96: get_connection() outside the try
get_schema_connect(ok) ==
    /\ pc = "schema_connect"
    /\ trace' = Append(trace, Ev("get_schema", "connect", <<>>, ok))
    /\ IF ok
       THEN /\ open_conns' = open_conns + 1
            /\ pc' = "schema_cursor"
            /\ UNCHANGED result
       ELSE /\ result' = raised(DriverMessage("connect"))
            /\ pc' = "done"
            /\ UNCHANGED open_conns
    /\ UNCHANGED <<threads, clientvars, callvars, query_logs, now, safe, work, idx, cursor_bound, txn,
                   results, err>>

\* lines 147-158: a driver call inside the try raised
SchemaFailed(op, arg) ==
    /\ trace' = trace \o <<Ev("get_schema", op, arg, FALSE), ConnClosed("get_schema")>>
    /\ query_logs' = log_query(query_logs,
                               log_entry(now, T_get_schema, FALSE, DriverMessage(op)))
    /\ now' = now + 1
    /\ result' = failure_result(DriverMessage(op))
    /\ open_conns' = open_conns - 1
    /\ pc' = "done"

\* mutant: the success of get_schema is not logged
SchemaSucceeded_without_log(events, names) ==
    /\ trace' = trace \o events \o <<ConnClosed("get_schema")>>
    /\ result' = [NoResult EXCEPT !.kind = "return", !.success = TRUE,
                     !.tables = [i \in 1..Len(names) |->
                                    [name |-> names[i], columns |-> ColumnsOf(names[i])]]]
    /\ open_conns' = open_conns - 1
    /\ pc' = "done"
    /\ UNCHANGED <<query_logs, now>>

\* lines 139-146 and 155-158: every table described
SchemaSucceeded(events, names) ==
    /\ trace' = trace \o events \o <<ConnClosed("get_schema")>>
    /\ query_logs' = log_query(query_logs,
                               log_entry(now, T_get_schema_for \o list_repr(names), TRUE, None))
    /\ now' = now + 1
    /\ result' = [NoResult EXCEPT !.kind = "return", !.success = TRUE,
                     !.tables = [i \in 1..Len(names) |->
                                    [name |-> names[i], columns |-> ColumnsOf(names[i])]]]
    /\ open_conns' = open_conns - 1
    /\ pc' = "done"

\* line 100: conn.cursor(pymysql.cursors.DictCursor)
get_schema_cursor(ok) ==
    /\ pc = "schema_cursor"
    /\ IF ok
       THEN /\ trace' = Append(trace, Ev("get_schema", "cursor", <<>>, TRUE))
            /\ pc' = "schema_tables"
            /\ UNCHANGED <<query_logs, now, result, open_conns>>
       ELSE SchemaFailed("cursor", <<>>)
    /\ UNCHANGED <<threads, clientvars, callvars, safe, work, idx, cursor_bound, txn, results, err>>

\* lines 103-118: SHOW TABLES, then the tables to describe
get_schema_show_tables(ok) ==
    /\ pc = "schema_tables"
    /\ IF ~ok
       THEN SchemaFailed("show_tables", <<>>) /\ UNCHANGED <<work, idx>>
       ELSE LET shown == Ev("get_schema", "show_tables", <<>>, TRUE)
                valid_tables ==
                    SelectSeq(table_names.names, LAMBDA n : n \in Range(all_table_names))
                table_names_to_query ==
                    IF table_names.given THEN valid_tables ELSE all_table_names
            IN  IF table_names.given /\ valid_tables = <<>>
                THEN /\ trace' = trace \o <<shown, ConnClosed("get_schema")>>
                     /\ result' = failure_result(NoTablesMsg)
                     /\ open_conns' = open_conns - 1
                     /\ pc' = "done"
                     /\ UNCHANGED <<query_logs, now, work, idx>>
                ELSE IF table_names_to_query = <<>>
                THEN SchemaSucceeded(<<shown>>, <<>>) /\ UNCHANGED <<work, idx>>
                ELSE /\ trace' = Append(trace, shown)
                     /\ work' = table_names_to_query
                     /\ idx' = 1
                     /\ pc' = "schema_describe"
                     /\ UNCHANGED <<query_logs, now, result, open_conns>>
    /\ UNCHANGED <<threads, clientvars, callvars, safe, cursor_bound, txn, results, err>>

\* lines 122-137: DESCRIBE one table of the loop; after the last one the
\* success is logged and returned
get_schema_describe(ok) ==
    /\ pc = "schema_describe"
    /\ IF ~ok
       THEN SchemaFailed("describe", work[idx]) /\ UNCHANGED idx
       ELSE IF idx = Len(work)
       THEN /\ SchemaSucceeded(<<Ev("get_schema", "describe", work[idx], TRUE)>>, work)
            /\ UNCHANGED idx
       ELSE /\ trace' = Append(trace, Ev("get_schema", "describe", work[idx], TRUE))
            /\ idx' = idx + 1
            /\ UNCHANGED <<query_logs, now, result, open_conns, pc>>
    /\ UNCHANGED <<threads, clientvars, callvars, safe, work, cursor_bound, txn, results, err>>

\* ------------------------------------------------------------------------
\* get_query_logs, lines 49-78
\* ------------------------------------------------------------------------
LimitMsg == "Limit must be a positive integer"

\* mutant: query_logs[:limit], the oldest entries
recent_logs_oldest(logs, lim) ==
    IF lim < Len(logs) THEN SubSeq(logs, 1, lim) ELSE logs

\* line 64: query_logs[-limit:] if limit < len(query_logs) else query_logs
recent_logs(logs, lim) ==
    IF lim < Len(logs) THEN SubSeq(logs, Len(logs) - lim + 1, Len(logs)) ELSE logs

\* lines 69-71: a copy of the entry with the timestamp rendered to the second
format_log(log) ==
    [log EXCEPT !.timestamp = [repr |-> "str", t |-> log.timestamp.t \div TicksPerSecond]]

\* mutant: only a negative limit is turned down
get_query_logs_result_zero_allowed(logs, lim) ==
    IF lim < 0 THEN failure_result(LimitMsg)
    ELSE LET recent == recent_logs(logs, lim)
         IN  [NoResult EXCEPT !.kind = "return", !.success = TRUE,
                 !.logs = [i \in 1..Len(recent) |-> format_log(recent[i])],
                 !.total_queries = Len(logs)]

\* lines 57-78
get_query_logs_result(logs, lim) ==
    IF lim <= 0 THEN failure_result(LimitMsg)
    ELSE LET recent == recent_logs(logs, lim)
         IN  [NoResult EXCEPT !.kind = "return", !.success = TRUE,
                 !.logs = [i \in 1..Len(recent) |-> format_log(recent[i])],
                 !.total_queries = Len(logs)]

\* a client calls the tool get_query_logs(limit); the stored entries are
\* read, never written
get_query_logs(lim) ==
    /\ pc = "idle"
    /\ tool' = "get_query_logs"
    /\ limit' = lim
    /\ result' = get_query_logs_result(query_logs, lim)
    /\ pc' = "done"
    /\ trace' = <<>>
    /\ logs0' = Len(query_logs)
    /\ conns0' = open_conns
    /\ UNCHANGED <<threads, clientvars, query_logs, now, env, open_conns, sql, table_names, safe, work,
                   idx, cursor_bound, txn, results, err>>

\* the tool call is over: the result goes to the client
Return ==
    /\ pc = "done"
    /\ pc' = "idle"
    /\ tool' = "none"
    /\ sql' = <<>>
    /\ table_names' = NoTableNames
    /\ limit' = 0
    /\ safe' = FALSE
    /\ work' = <<>>
    /\ idx' = 0
    /\ cursor_bound' = FALSE
    /\ txn' = "none"
    /\ results' = <<>>
    /\ err' = None
    /\ result' = NoResult
    /\ trace' = <<>>
    /\ logs0' = 0
    /\ conns0' = 0
    /\ UNCHANGED <<threads, clientvars, query_logs, now, env, open_conns>>

Next ==
    \/ \E s \in SqlInputs : query_data_call(s)
    \/ is_safe_query_precheck
    \/ is_safe_query_field
    \/ \E ok \in BOOLEAN : is_safe_query_connect(ok)
    \/ \E ok \in BOOLEAN : is_safe_query_cursor(ok)
    \/ \E ok \in BOOLEAN : is_safe_query_describe(ok)
    \/ query_data_validated
    \/ \E ok \in BOOLEAN : query_data_connect(ok)
    \/ \E ok \in BOOLEAN : query_data_cursor(ok)
    \/ \E ok \in BOOLEAN : query_data_set_read_only(ok)
    \/ \E ok \in BOOLEAN : query_data_start_transaction(ok)
    \/ \E ok \in BOOLEAN : query_data_execute(ok)
    \/ \E ok \in BOOLEAN : \E rows \in ResultSets : query_data_fetchall(ok, rows)
    \/ \E ok \in BOOLEAN : query_data_commit(ok)
    \/ \E ok \in BOOLEAN : query_data_rollback(ok)
    \/ \E names \in TableNameInputs : get_schema_call(names)
    \/ \E ok \in BOOLEAN : get_schema_connect(ok)
    \/ \E ok \in BOOLEAN : get_schema_cursor(ok)
    \/ \E ok \in BOOLEAN : get_schema_show_tables(ok)
    \/ \E ok \in BOOLEAN : get_schema_describe(ok)
    \/ \E lim \in (-1)..MaxLimit : get_query_logs(lim)
    \/ Return

Spec == Init /\ [][Next]_vars

\* ------------------------------------------------------------------------
\* Requests handled at the same time, lines 26-78
\*
\* log_query and get_query_logs work on the module's list query_logs and
\* take no lock.  Each request below runs the statements of one of them in
\* program order; between two statements that touch query_logs another
\* request may run.  list.append, len(), a slice and one step of the list
\* iterator are each carried out as a whole by the interpreter.
\* ------------------------------------------------------------------------
\* the variables of the one-call-at-a-time specification, the log excepted
sequentialvars ==
    <<env, open_conns, pc, tool, sql, table_names, limit, safe, work, idx,
      cursor_bound, txn, results, err, result, trace, logs0, conns0>>

\* operation and outcome passed to log_query by the tool that calls it
LogInputs ==
    {<<Sql_select_id, TRUE, None>>, <<T_get_schema, FALSE, DriverMessage("describe")>>}

\* lines 39-44: log_entry = {"timestamp": time.time(), ...}
log_query_build(t, operation, success, error) ==
    /\ threads[t].pc = "idle"
    /\ Cardinality({u \in Threads : threads[u].op = "log_query"}) < MaxLog
    /\ threads' = [threads EXCEPT ![t] =
                      [@ EXCEPT !.op = "log_query", !.pc = "append",
                                !.log_entry = <<log_entry(now, operation, success, error)>>]]
    /\ now' = now + 1
    /\ UNCHANGED <<clientvars, sequentialvars, query_logs>>

\* line 47: query_logs.append(log_entry)
log_query_append(t) ==
    /\ threads[t].pc = "append"
    /\ query_logs' = log_query(query_logs, threads[t].log_entry[1])
    /\ threads' = [threads EXCEPT ![t].pc = "done"]
    /\ UNCHANGED <<clientvars, sequentialvars, now>>

\* lines 56-61: the limit argument is tested before the log is read
get_query_logs_call(t, lim) ==
    /\ threads[t].pc = "idle"
    /\ threads' = [threads EXCEPT ![t] =
                      IF lim <= 0
                      THEN [@ EXCEPT !.op = "get_query_logs", !.limit = lim, !.pc = "done",
                                     !.result = failure_result(LimitMsg)]
                      ELSE [@ EXCEPT !.op = "get_query_logs", !.limit = lim, !.pc = "test"]]
    /\ UNCHANGED <<clientvars, sequentialvars, query_logs, now>>

\* line 64, the condition limit < len(query_logs); when it is false logs is
\* bound to the list query_logs itself
get_query_logs_test(t) ==
    /\ threads[t].pc = "test"
    /\ threads' = [threads EXCEPT ![t] =
                      IF threads[t].limit < Len(query_logs)
                      THEN [@ EXCEPT !.pc = "slice"]
                      ELSE [@ EXCEPT !.pc = "loop", !.aliased = TRUE]]
    /\ UNCHANGED <<clientvars, sequentialvars, query_logs, now>>

\* line 64, the slice query_logs[-limit:]: a new list of the last limit
\* entries the log holds now
get_query_logs_slice(t) ==
    /\ threads[t].pc = "slice"
    /\ threads' = [threads EXCEPT ![t] =
                      [@ EXCEPT !.pc = "loop",
                                !.logs = SubSeq(query_logs,
                                                Len(query_logs) - threads[t].limit + 1,
                                                Len(query_logs))]]
    /\ UNCHANGED <<clientvars, sequentialvars, query_logs, now>>

\* lines 68-72: one step of for log in logs; the iterator of a list reads
\* the list's length at every step
get_query_logs_loop(t) ==
    /\ threads[t].pc = "loop"
    /\ LET logs == IF threads[t].aliased THEN query_logs ELSE threads[t].logs
       IN  threads' = [threads EXCEPT ![t] =
                          IF threads[t].i < Len(logs)
                          THEN [@ EXCEPT !.i = @ + 1,
                                         !.formatted_logs =
                                             Append(@, format_log(logs[threads[t].i + 1]))]
                          ELSE [@ EXCEPT !.pc = "return"]]
    /\ UNCHANGED <<clientvars, sequentialvars, query_logs, now>>

\* lines 74-78: total_queries is len(query_logs), read now
get_query_logs_return(t) ==
    /\ threads[t].pc = "return"
    /\ threads' = [threads EXCEPT ![t] =
                      [@ EXCEPT !.pc = "done",
                                !.result = [NoResult EXCEPT
                                               !.kind = "return", !.success = TRUE,
                                               !.logs = threads[t].formatted_logs,
                                               !.total_queries = Len(query_logs)]]]
    /\ UNCHANGED <<clientvars, sequentialvars, query_logs, now>>

NextConcurrent ==
    \/ \E t \in Threads : \E a \in LogInputs : log_query_build(t, a[1], a[2], a[3])
    \/ \E t \in Threads : log_query_append(t)
    \/ \E t \in Threads : \E lim \in -1..MaxLimit : get_query_logs_call(t, lim)
    \/ \E t \in Threads : get_query_logs_test(t)
    \/ \E t \in Threads : get_query_logs_slice(t)
    \/ \E t \in Threads : get_query_logs_loop(t)
    \/ \E t \in Threads : get_query_logs_return(t)

SpecConcurrent == Init /\ [][NextConcurrent]_vars

\* ------------------------------------------------------------------------
\* The validation pipeline alone: one query_data call on a fresh server,
\* from its first line to the verdict (line 323), for more SQL texts and
\* more values of SENSITIVE_FIELDS
\* ------------------------------------------------------------------------
V_select_password ==
    <<"S", "E", "L", "E", "C", "T", " ", "p", "a", "s", "s", "w", "o", "r",
      "d", " ", "F", "R", "O", "M", " ", "e", "m", "p", "l", "o", "y", "e",
      "e">>

V_select_salary ==
    <<"S", "E", "L", "E", "C", "T", " ", "S", "a", "l", "a", "r", "y", " ",
      "F", "R", "O", "M", " ", "e", "m", "p", "l", "o", "y", "e", "e">>

V_star_join ==
    <<"s", "e", "l", "e", "c", "t", " ", "*", " ", "f", "r", "o", "m", " ",
      "s", "t", "u", "d", "e", "n", "t", " ", "j", "o", "i", "n", " ", "e",
      "m", "p", "l", "o", "y", "e", "e">>

V_qualified_star ==
    <<"s", "e", "l", "e", "c", "t", " ", "e", ".", "*", " ", "f", "r", "o",
      "m", " ", "e", "m", "p", "l", "o", "y", "e", "e", " ", "e">>

V_where_salary ==
    <<"s", "e", "l", "e", "c", "t", " ", "i", "d", " ", "f", "r", "o", "m",
      " ", "e", "m", "p", "l", "o", "y", "e", "e", " ", "w", "h", "e", "r",
      "e", " ", "s", "a", "l", "a", "r", "y", " ", ">", " ", "1">>

V_max_phone_backup ==
    <<"s", "e", "l", "e", "c", "t", " ", "m", "a", "x", "(", "p", "h", "o",
      "n", "e", "_", "b", "a", "c", "k", "u", "p", ")", " ", "f", "r", "o",
      "m", " ", "s", "t", "u", "d", "e", "n", "t">>

V_phone_backup ==
    <<"s", "e", "l", "e", "c", "t", " ", "p", "h", "o", "n", "e", "_", "b",
      "a", "c", "k", "u", "p", " ", "f", "r", "o", "m", " ", "s", "t", "u",
      "d", "e", "n", "t">>

V_with ==
    <<"w", "i", "t", "h", " ", "t", " ", "a", "s", " ", "(", "s", "e", "l",
      "e", "c", "t", " ", "i", "d", " ", "f", "r", "o", "m", " ", "s", "t",
      "u", "d", "e", "n", "t", ")", " ", "s", "e", "l", "e", "c", "t", " ",
      "i", "d", " ", "f", "r", "o", "m", " ", "t">>

V_show_tables ==
    <<"s", "h", "o", "w", " ", "t", "a", "b", "l", "e", "s">>

V_update ==
    <<"u", "p", "d", "a", "t", "e", " ", "s", "t", "u", "d", "e", "n", "t",
      " ", "s", "e", "t", " ", "i", "d", "=", "2">>

V_leading_space ==
    <<" ", "\n", " ", "S", "e", "l", "e", "c", "t", " ", "i", "d", " ",
      "f", "r", "o", "m", " ", "s", "t", "u", "d", "e", "n", "t">>

V_empty == <<>>

ValidatorSqlInputs ==
    SqlInputs \cup
    {V_select_password, V_select_salary, V_star_join, V_qualified_star,
     V_where_salary, V_max_phone_backup, V_phone_backup, V_with, V_show_tables,
     V_update, V_leading_space, V_empty}

\* SENSITIVE_FIELDS as in EnvInputs, or 'salary(': a name that is not an
\* identifier
ValidatorEnvInputs ==
    EnvInputs \cup {<<"s", "a", "l", "a", "r", "y", "(">>}

\* query_data(s) has been called on a server that has just started
InitValidate ==
    /\ query_logs = <<>>
    /\ now = 0
    /\ env \in ValidatorEnvInputs
    /\ open_conns = 0
    /\ pc = "safe_precheck"
    /\ tool = "query_data"
    /\ sql \in ValidatorSqlInputs
    /\ table_names = NoTableNames
    /\ limit = 0
    /\ safe = FALSE
    /\ work = <<>>
    /\ idx = 0
    /\ cursor_bound = FALSE
    /\ txn = "none"
    /\ results = <<>>
    /\ err = None
    /\ result = NoResult
    /\ trace = <<>>
    /\ logs0 = 0
    /\ conns0 = 0
    /\ threads = [t \in Threads |-> IdleThread]
    /\ ClientInit

NextValidate ==
    \/ is_safe_query_precheck
    \/ is_safe_query_field
    \/ \E ok \in BOOLEAN : is_safe_query_connect(ok)
    \/ \E ok \in BOOLEAN : is_safe_query_cursor(ok)
    \/ \E ok \in BOOLEAN : is_safe_query_describe(ok)
    \/ query_data_validated

SpecValidate == InitValidate /\ [][NextValidate]_vars

\* ------------------------------------------------------------------------
\* The front ends: MCPClient (client.py) and the Streamlit app (app.py).
\* What the language model and the server answer is an input of the step.
\* ------------------------------------------------------------------------
\* natural-language exchanges a front end handles
MaxExchanges == 2

\* uuid4() values a front end draws
MaxUuid == 3

\* server processes the commands of one app session start
MaxServers == 3

\* the texts users type
Queries == {"q1", "q2"}

\* api.py line 23: the parameters of TongYiAPI.chat besides self
chat_parameters == {"prompt", "content", "max_token", "temperature", "response_format"}

\* api.py line 23: the parameters without a default
chat_required == {"prompt", "content"}

\* client.py line 186: the keyword arguments of the call self.llm.chat(...)
process_query_keywords ==
    {"system_prompt", "content", "response_format", "conversation_history"}

\* mutant: chat takes any keyword argument
chat_call_binds_any_keyword(keywords) == TRUE

\* a call with these keyword arguments binds to the parameters of chat; if
\* not, the call raises TypeError before the body of chat runs
chat_call_binds(keywords) ==
    /\ keywords \subseteq chat_parameters
    /\ chat_required \subseteq keywords

\* what a call of chat that binds does: it raises (api.py line 49), or returns
\* text that is not JSON, or a JSON object with these keys
LlmOutcomes ==
    {o \in [kind : {"raise", "not_json", "json"}, direct_response : {"", "answer"},
            sql : {<<>>, Sql_select_id}, has_thoughts : BOOLEAN] :
        o.kind # "json" => (o.direct_response = "" /\ o.sql = <<>> /\ ~o.has_thoughts)}

\* what session.call_tool("query_data", ...) does: it raises, or returns a
\* content whose text is empty, or the JSON text of the tool's result
ToolReplies == {"raise", "empty", "result"}

\* the inputs of one natural-language exchange: whether get_prompt works,
\* the answer of the language model, the reply to the tool call.  What the
\* code cannot read is not varied: the answer when there is no prompt, the
\* key thoughts and the reply of the server when no tool call is sent
\* (client.py lines 199-211).
ExchangeInputs ==
    {x \in [prompt_ok : BOOLEAN, llm : LlmOutcomes, reply : ToolReplies] :
        LET calls == /\ x.prompt_ok
                     /\ x.llm.kind = "json"
                     /\ x.llm.direct_response = ""
                     /\ x.llm.sql # <<>>
        IN  /\ ~x.prompt_ok => x.llm.kind = "raise"
            /\ ~calls => (x.reply = "raise" /\ ~x.llm.has_thoughts)}

\* client.py line 223: the text that tells the user the exception e
ErrorResponse(e) == [kind |-> "error", text |-> e, results |-> None]

\* the str() of the dict json.loads returned (client.py line 195)
dict_str(o) ==
    [str_of |-> [direct_response |-> o.direct_response, sql |-> o.sql,
                 has_thoughts |-> o.has_thoughts]]

\* client.py lines 181-223, process_query: the entries it appends to
\* self.conversation_history, what it returns, the tool calls it sends
process_query_result(query, prompt_ok, llm, reply) ==
    LET nothing(e) == [append |-> <<>>, response |-> ErrorResponse(e), tool_calls |-> <<>>]
        turns      == <<Entry("user", query), Entry("assistant", dict_str(llm))>>
        call       == [tool |-> "query_data", sql |-> llm.sql]
    IN  IF ~prompt_ok THEN nothing("get_prompt")
        ELSE IF ~chat_call_binds(process_query_keywords) THEN nothing("TypeError")
        ELSE IF llm.kind = "raise" THEN nothing("chat")
        ELSE IF llm.kind = "not_json" THEN nothing("JSONDecodeError")
        ELSE IF llm.direct_response # ""
        THEN [append |-> turns, tool_calls |-> <<>>,
              response |-> [kind |-> "direct", text |-> llm.direct_response,
                            results |-> None]]
        ELSE IF llm.sql # <<>>
        THEN [append |-> turns, tool_calls |-> <<call>>,
              response |->
                  IF reply = "raise" THEN ErrorResponse("call_tool")
                  ELSE IF ~llm.has_thoughts THEN ErrorResponse("KeyError")
                  ELSE [kind |-> "final", text |-> llm.sql,
                        results |-> IF reply = "empty" THEN None ELSE "result"]]
        ELSE [append |-> turns, tool_calls |-> <<>>,
              response |-> [kind |-> "unhandled", text |-> None, results |-> None]]

\* the list self.conversation_history refers to
history_value ==
    IF conversation_history.ref = "FEW_SHOT_EXAMPLES" THEN FEW_SHOT_EXAMPLES
    ELSE conversation_history.own

\* client.py line 293 (chat_loop): any other input goes to process_query.
\* list.append changes the list the attribute refers to.
process_query(query, prompt_ok, llm, reply) ==
    /\ exchanges.cli < MaxExchanges
    /\ LET r == process_query_result(query, prompt_ok, llm, reply)
       IN  /\ IF conversation_history.ref = "FEW_SHOT_EXAMPLES"
              THEN /\ FEW_SHOT_EXAMPLES' = FEW_SHOT_EXAMPLES \o r.append
                   /\ UNCHANGED conversation_history
              ELSE /\ conversation_history' = OwnList(conversation_history.own \o r.append)
                   /\ UNCHANGED FEW_SHOT_EXAMPLES
           /\ last' = [NoCommand EXCEPT !.front = "cli", !.cmd = "process_query",
                          !.query = query, !.history0 = history_value,
                          !.id0 = session_id, !.response = r.response,
                          !.tool_calls = r.tool_calls, !.prompt_ok = prompt_ok,
                          !.llm = llm]
    /\ exchanges' = [exchanges EXCEPT !.cli = @ + 1]
    /\ UNCHANGED <<servervars, session_id, use_few_shot, app_FEW_SHOT_EXAMPLES,
                   agent_conversation_history, app_session_id, app_use_few_shot, uuids,
                   servers>>

\* client.py lines 241-245 (chat_loop): the input 'new chat'
new_chat ==
    /\ uuids.cli < MaxUuid
    /\ conversation_history' = IF use_few_shot THEN SharedList ELSE OwnList(<<>>)
    /\ session_id' = uuids.cli + 1
    /\ uuids' = [uuids EXCEPT !.cli = @ + 1]
    /\ last' = [NoCommand EXCEPT !.front = "cli", !.cmd = "new chat",
                                 !.history0 = history_value, !.id0 = session_id]
    /\ UNCHANGED <<servervars, FEW_SHOT_EXAMPLES, use_few_shot, app_FEW_SHOT_EXAMPLES,
                   agent_conversation_history, app_session_id, app_use_few_shot,
                   exchanges, servers>>

\* list[-2:]
last_two(h) == SubSeq(h, Max({1, Len(h) - 1}), Len(h))

\* ------------------------------------------------------------------------
\* The Streamlit app: one MCPClient and one server process per command
\* ------------------------------------------------------------------------
\* how create_client (app.py lines 20-27) ends: it returns the connected
\* client; or connect_to_server raises before a process is started
\* (client.py lines 68-69, or the start itself fails); or it raises after
\* the process is started (client.py lines 78-95), and then no code closes
\* the client's exit_stack
ConnectOutcomes == {"ok", "not_started", "failed_after_start"}

\* mutant: the new client is attached to the process of the command before
started_server_keeps_log ==
    IF servers = <<>>
    THEN [query_logs0 |-> <<>>, query_logs |-> <<>>, client |-> FALSE, closed |-> FALSE]
    ELSE [query_logs0 |-> servers[Len(servers)].query_logs,
          query_logs |-> servers[Len(servers)].query_logs,
          client |-> FALSE, closed |-> FALSE]

\* client.py lines 71-77: stdio_client starts python <server script>, a new
\* process; run_server.py line 27 gives it the empty list query_logs.
\* query_logs0 is its log when the command's request arrives, query_logs
\* its log when the command is over.
started_server ==
    [query_logs0 |-> <<>>, query_logs |-> <<>>, client |-> FALSE, closed |-> FALSE]

\* the server processes after a command: create_client, the one request of
\* the command, whose tool appends the entries logged to the log of the
\* process, and client.exit_stack.aclose() in the finally block
servers_after(connect, logged) ==
    IF connect = "not_started" THEN servers
    ELSE IF connect = "failed_after_start" THEN Append(servers, started_server)
    ELSE Append(servers, [started_server EXCEPT !.client = TRUE, !.closed = TRUE,
                                                !.query_logs = @ \o logged])

\* the command of the app: where it stood before
app_command(cmd, connect) ==
    [NoCommand EXCEPT !.front = "app", !.cmd = cmd, !.connect = connect,
                      !.history0 = agent_conversation_history,
                      !.id0 = app_session_id, !.servers0 = Len(servers)]

\* mutant: the client keeps the list of the module
nlp_client_history_aliased(few_shot) ==
    IF few_shot THEN SharedList ELSE OwnList(<<>>)

\* app.py lines 109-114: client.conversation_history is a copy of
\* FEW_SHOT_EXAMPLES, or a new empty list
nlp_client_history(few_shot) ==
    IF few_shot THEN OwnList(app_FEW_SHOT_EXAMPLES) ELSE OwnList(<<>>)

\* app.py lines 304-365 with nlp_query_sync (lines 99-131) and create_client
\* (lines 20-27): a natural-language message in the Streamlit app.  A new
\* MCPClient is made for the message; the history so far is added to its
\* conversation_history (line 117), process_query appends to it, and its
\* last two entries are added to the history of the session (line 121).
app_nlp_query(query, connect, prompt_ok, llm, reply) ==
    /\ exchanges.app < MaxExchanges
    /\ Len(servers) < MaxServers
    /\ LET h        == nlp_client_history(app_use_few_shot)
           r        == process_query_result(query, prompt_ok, llm, reply)
           added    == agent_conversation_history \o r.append
           aliased  == h.ref = "FEW_SHOT_EXAMPLES"
           client_history   ==
               (IF aliased THEN app_FEW_SHOT_EXAMPLES ELSE h.own) \o added
           new_conversation == last_two(client_history)
           updated_history  == agent_conversation_history \o new_conversation
           shown    == r.response.kind = "final" /\ r.response.results # None
           summary  == Entry("assistant", [executed |-> r.response.text])
           logged   == IF r.tool_calls # <<>> /\ reply # "raise"
                       THEN <<log_entry(0, llm.sql, TRUE, None)>>
                       ELSE <<>>
       IN  IF connect # "ok"
           THEN /\ last' = [app_command("nlp_query", connect) EXCEPT
                               !.query = query,
                               !.response = ErrorResponse("create_client")]
                /\ servers' = servers_after(connect, <<>>)
                /\ UNCHANGED <<agent_conversation_history, app_FEW_SHOT_EXAMPLES>>
           ELSE /\ agent_conversation_history' =
                       IF shown THEN Append(updated_history, summary)
                       ELSE updated_history
                /\ app_FEW_SHOT_EXAMPLES' =
                       IF aliased THEN client_history ELSE app_FEW_SHOT_EXAMPLES
                /\ servers' = servers_after(connect, logged)
                /\ last' = [app_command("nlp_query", connect) EXCEPT
                               !.query = query, !.response = r.response,
                               !.tool_calls = r.tool_calls,
                               !.prompt_ok = prompt_ok, !.llm = llm]
    /\ exchanges' = [exchanges EXCEPT !.app = @ + 1]
    /\ UNCHANGED <<servervars, FEW_SHOT_EXAMPLES, conversation_history, session_id,
                   use_few_shot, app_session_id, app_use_few_shot, uuids>>

\* app.py lines 220-226: the message 'new chat'
app_new_chat ==
    /\ uuids.app < MaxUuid
    /\ app_session_id' = uuids.app + 1
    /\ uuids' = [uuids EXCEPT !.app = @ + 1]
    /\ agent_conversation_history' = <<>>
    /\ last' = [app_command("new chat", "none") EXCEPT !.servers0 = Len(servers)]
    /\ UNCHANGED <<servervars, FEW_SHOT_EXAMPLES, conversation_history, session_id,
                   use_few_shot, app_FEW_SHOT_EXAMPLES, app_use_few_shot, exchanges,
                   servers>>

\* what a tool call leaves in the log of the process that served it: one
\* entry (log_query, lines 35-47), or nothing when the tool raised before
\* it logged
ToolLogged(operation) ==
    {<<>>, <<log_entry(0, operation, TRUE, None)>>,
     <<log_entry(0, operation, FALSE, DriverMessage("execute"))>>}

\* the frame of a command of the app that is not a natural-language message
app_frame ==
    UNCHANGED <<servervars, FEW_SHOT_EXAMPLES, conversation_history, session_id,
                use_few_shot, app_FEW_SHOT_EXAMPLES, agent_conversation_history,
                app_session_id, app_use_few_shot, uuids, exchanges>>

\* app.py lines 229-246 with get_schema_sync (lines 38-53): 'schema ...'
app_get_schema(connect, logged) ==
    /\ Len(servers) < MaxServers
    /\ servers' = servers_after(connect, logged)
    /\ last' = [app_command("schema", connect) EXCEPT
                   !.response = IF connect = "ok"
                                THEN [kind |-> "schema", text |-> None, results |-> None]
                                ELSE ErrorResponse("create_client"),
                   !.tool_calls = IF connect = "ok"
                                  THEN <<[tool |-> "get_schema", sql |-> <<>>]>>
                                  ELSE <<>>]
    /\ app_frame

\* app.py lines 270-303 with sql_query_sync (lines 72-97): 'sql <statement>'
app_sql_query(s, connect, logged) ==
    /\ Len(servers) < MaxServers
    /\ servers' = servers_after(connect, logged)
    /\ last' = [app_command("sql", connect) EXCEPT
                   !.query = s,
                   !.response = IF connect = "ok"
                                THEN [kind |-> "sql", text |-> None, results |-> None]
                                ELSE ErrorResponse("create_client"),
                   !.tool_calls = IF connect = "ok"
                                  THEN <<[tool |-> "query_data", sql |-> s]>>
                                  ELSE <<>>]
    /\ app_frame

\* run_server.py lines 362 and 385: the resources the server registers
resources == {"mysql://tables", "mysql://table/{table_name}/describe"}

\* client.py line 110: the resource get_query_logs asks the server for
logs_uri == "logs://{session_id}/{limit}"

\* what session.read_resource gives for a resource the server does not
\* have: it raises, or it returns no contents
ReadReplies == {"raise", "no_contents"}

\* client.py lines 106-137, get_query_logs: the text for the user and the
\* log entries in it.  The server has the tool get_query_logs but no
\* resource logs://..., so read_resource never returns a log.
client_get_query_logs(log, lim, reply) ==
    IF logs_uri \in resources
    THEN LET logs_info == get_query_logs_result(log, lim)
         IN  IF ~logs_info.success
             THEN [response |-> ErrorResponse(logs_info.error), logs |-> <<>>]
             ELSE [response |-> [kind |-> "logs", text |-> None, results |-> None],
                   logs |-> logs_info.logs]
    ELSE IF reply = "raise"
    THEN [response |-> ErrorResponse("read_resource"), logs |-> <<>>]
    ELSE [response |-> ErrorResponse("no contents"), logs |-> <<>>]

\* app.py lines 247-269 with get_logs_sync (lines 55-70): 'log [n]'
app_get_logs(lim, connect, reply) ==
    /\ Len(servers) < MaxServers
    /\ servers' = servers_after(connect, <<>>)
    /\ LET shown == client_get_query_logs(started_server.query_logs0, lim, reply)
       IN  last' = [app_command("log", connect) EXCEPT
                       !.response = IF connect = "ok" THEN shown.response
                                    ELSE ErrorResponse("create_client"),
                       !.logs = IF connect = "ok" THEN shown.logs ELSE <<>>]
    /\ app_frame

NextClient ==
    \/ \E query \in Queries : \E x \in ExchangeInputs :
          process_query(query, x.prompt_ok, x.llm, x.reply)
    \/ new_chat
    \/ \E query \in Queries : \E connect \in ConnectOutcomes : \E x \in ExchangeInputs :
          /\ connect # "ok" => ~x.prompt_ok
          /\ app_nlp_query(query, connect, x.prompt_ok, x.llm, x.reply)
    \/ app_new_chat

SpecClient == Init /\ [][NextClient]_vars

\* the commands of one session of the app
NextApp ==
    \/ \E query \in Queries : \E connect \in ConnectOutcomes : \E x \in ExchangeInputs :
          /\ connect # "ok" => ~x.prompt_ok
          /\ app_nlp_query(query, connect, x.prompt_ok, x.llm, x.reply)
    \/ app_new_chat
    \/ \E connect \in ConnectOutcomes : \E logged \in ToolLogged(T_get_schema) :
          app_get_schema(connect, logged)
    \/ \E connect \in ConnectOutcomes : \E logged \in ToolLogged(Sql_select_id) :
          app_sql_query(Sql_select_id, connect, logged)
    \/ \E lim \in {1, MaxLimit} : \E connect \in ConnectOutcomes : \E reply \in ReadReplies :
          app_get_logs(lim, connect, reply)

SpecApp == Init /\ [][NextApp]_vars

\* ------------------------------------------------------------------------
\* Properties
\* ------------------------------------------------------------------------
\* the positions of trace that hold the event e
Happened(e) == {k \in 1..Len(trace) : trace[k] = e}

\* the calls query_data itself makes on the database driver
EnvelopeCalls ==
    {k \in 1..Len(trace) :
        trace[k].by = "query_data" /\ trace[k].op \notin {"is_safe_query", "is_sql_injection"}}

\* the calls of any function on the database driver
DriverCalls ==
    {k \in 1..Len(trace) :
        trace[k].op \notin {"is_safe_query", "is_sql_injection", "re.search"}}

\* the validation pipeline of this call turned the sql down
ValidationRejected ==
    \/ Happened(Ev("query_data", "is_safe_query", sql, FALSE)) # {}
    \/ Happened(Ev("query_data", "is_sql_injection", sql, TRUE)) # {}

\* C1: in every query_data call, cursor.execute receives the caller's sql
\* and only after, earlier in the same call, is_safe_query(sql) returned
\* True and then is_sql_injection(sql) returned False.
C1_ExecuteOnlyValidated ==
    \A k \in 1..Len(trace) :
        (trace[k].by = "query_data" /\ trace[k].op = "execute") =>
            /\ trace[k].arg = sql
            /\ \E i \in 1..(k - 1) : \E j \in (i + 1)..(k - 1) :
                  /\ trace[i] = Ev("query_data", "is_safe_query", sql, TRUE)
                  /\ trace[j] = Ev("query_data", "is_sql_injection", sql, FALSE)

\* a query_data call that executed the sql and returned its rows
C1_Witness ==
    /\ pc = "done"
    /\ tool = "query_data"
    /\ Happened(Ev("query_data", "execute", sql, TRUE)) # {}
    /\ result.success

\* C2 as claimed: a query_data call that rejects its sql makes no call on
\* the database at all: no connection is opened, no statement is sent.
C2_RejectedNeverReachesDatabase ==
    ValidationRejected => DriverCalls = {}

\* C2 as amended: a query_data call that rejects its sql never sends that
\* sql to the database and never opens the connection of the execution
\* envelope; the call ends with the rejection.  The only database access
\* is the lookup of is_safe_query for a '*' field of the projection
\* (connect, cursor, DESCRIBE, close).
C2_RejectedOnlyValidatorLookup ==
    ValidationRejected =>
        /\ EnvelopeCalls = {}
        /\ \A k \in DriverCalls :
              /\ trace[k].by = "is_safe_query"
              /\ trace[k].op \in {"connect", "cursor", "describe", "close"}
        /\ DriverCalls # {} =>
              \E f \in 1..Len(selected_fields(stripped_sql)) :
                  bare_field(selected_fields(stripped_sql)[f]) = <<"*">>
        /\ pc = "done"
        /\ result.kind = "return"
        /\ ~result.success
        /\ result.error \in {UnsafeMsg, InjectionMsg}

\* a rejection that came after is_safe_query described a table
C2_Witness ==
    /\ pc = "done"
    /\ tool = "query_data"
    /\ ValidationRejected
    /\ \E k \in DriverCalls : trace[k].op = "describe" /\ trace[k].ok

\* C3: every query_data call appends exactly one entry to query_logs,
\* whether it rejects, succeeds, or fails while connecting, setting up the
\* transaction or executing.
C3_ExactlyOneLogEntry ==
    (pc = "done" /\ tool = "query_data") => Len(query_logs) = logs0 + 1

\* C4: the audit log is append-only: every step of query_data, get_schema
\* and get_query_logs leaves the log it found as a prefix of the log it
\* leaves, so no stored entry is changed or removed.
C4_AppendOnly ==
    [][/\ Len(query_logs) <= Len(query_logs')
       /\ SubSeq(query_logs', 1, Len(query_logs)) = query_logs]_vars

\* get_query_logs returned formatted copies of a log that a query_data call
\* and a get_schema call had written
C4_Witness ==
    /\ pc = "done"
    /\ tool = "get_query_logs"
    /\ Len(result.logs) >= 2
    /\ \E i, j \in 1..Len(query_logs) :
          /\ startswith(query_logs[i].operation, T_get_schema)
          /\ query_logs[j].operation \in SqlInputs
    /\ \A i \in 1..Len(result.logs) : result.logs[i] \notin Range(query_logs)

\* C5: with k entries in the log, get_query_logs(limit) with limit > 0
\* returns the last min(limit, k) entries in the order they were appended
\* (timestamps rendered to the second) and total_queries = k.
C5_RecentLogsInOrder ==
    (pc = "done" /\ tool = "get_query_logs" /\ limit > 0) =>
        LET k == Len(query_logs)
            m == IF limit < k THEN limit ELSE k
        IN  /\ result.kind = "return"
            /\ result.success
            /\ result.total_queries = k
            /\ Len(result.logs) = m
            /\ \A i \in 1..m :
                  LET stored   == query_logs[k - m + i]
                      returned == result.logs[i]
                  IN  /\ returned.operation = stored.operation
                      /\ returned.success = stored.success
                      /\ returned.error_msg = stored.error_msg
                      /\ returned.timestamp.repr = "str"
                      /\ returned.timestamp.t = stored.timestamp.t \div TicksPerSecond

\* a read with a limit smaller than the log: the oldest entry is left out
C5_Witness ==
    /\ pc = "done"
    /\ tool = "get_query_logs"
    /\ limit >= 1
    /\ limit < Len(query_logs)
    /\ query_logs[1].operation # query_logs[Len(query_logs)].operation
    /\ Len(result.logs) = limit

\* C6: a query_data call whose statement, fetch and commit all went through
\* returns success with exactly the fetched rows and rowCount = their
\* number; success is returned only after the commit.
C6_SuccessReturnsRows ==
    (pc = "done" /\ tool = "query_data") =>
        /\ Happened(Ev("query_data", "commit", <<>>, TRUE)) # {} =>
              /\ result.kind = "return"
              /\ result.success
              /\ result.results = results
              /\ result.rowCount = Len(results)
        /\ (result.kind = "return" /\ result.success) =>
              /\ txn = "committed"
              /\ \E f \in Happened(Ev("query_data", "fetchall", <<>>, TRUE)) :
                    \E c \in Happened(Ev("query_data", "commit", <<>>, TRUE)) : f < c

\* a successful call that returned two or more rows
C6_Witness ==
    /\ pc = "done"
    /\ tool = "query_data"
    /\ result.success
    /\ result.rowCount >= 2
    /\ result.rowCount = Len(results)

\* the statement, the fetch or the commit of this call raised
ExecutionFailures ==
    {k \in 1..Len(trace) :
        /\ trace[k].by = "query_data"
        /\ trace[k].op \in {"execute", "fetchall", "commit"}
        /\ ~trace[k].ok}

\* C7: when the statement, the fetch or the commit raises, query_data rolls
\* back and returns success=false with the driver's message; it never
\* returns success after a rollback nor failure after a successful commit.
C7_FailureRollsBackAndReturns ==
    (pc = "done" /\ tool = "query_data") =>
        /\ \A k \in ExecutionFailures :
              /\ txn = "rolled_back"
              /\ result = failure_result(DriverMessage(trace[k].op))
        /\ txn = "rolled_back" => ~(result.kind = "return" /\ result.success)
        /\ txn = "committed" => ~(result.kind = "return" /\ ~result.success)

\* C8: every connection a call opens is closed when the call returns or
\* raises.
C8_ConnectionsClosed ==
    pc = "done" => open_conns = conns0

\* C9: no query_data or get_schema call ends with an exception: each
\* returns a structured result, and a failed connect or transaction setup
\* is returned as success=false with an error message.
C9_NoExceptionEscapes ==
    (pc = "done" /\ tool \in {"query_data", "get_schema"}) =>
        /\ result.kind = "return"
        /\ (\E k \in DriverCalls : ~trace[k].ok) => (~result.success /\ result.error # None)

\* one of the mutation keywords stands in the text as a word of its own
HasStandaloneMutationKeyword(text) ==
    \E k \in 1..Len(unsafe_keywords) : SearchWholeWord(unsafe_keywords[k], lower(text))

\* C10: sql that holds insert, update, delete, drop, alter, truncate or
\* create as a standalone word (also right after ';' or '(') is rejected by
\* is_safe_query followed by is_sql_injection and is never executed.
C10_MutationKeywordRejected ==
    HasStandaloneMutationKeyword(sql) =>
        /\ Happened(Ev("query_data", "is_sql_injection", sql, FALSE)) = {}
        /\ \A k \in 1..Len(trace) : trace[k].op # "execute"

\* ------------------------------------------------------------------------
\* Properties of the validation pipeline (SpecValidate)
\* ------------------------------------------------------------------------
\* query_data is past line 323: the pipeline has given its verdict or raised
ValidationFinished ==
    /\ tool = "query_data"
    /\ pc \notin {"idle", "safe_precheck", "safe_field", "safe_connect",
                  "safe_cursor", "safe_describe", "validated"}

\* both checks let the sql through
ValidationAccepted == Happened(Ev("query_data", "is_sql_injection", sql, FALSE)) # {}

\* the items of the projection list without alias and table prefix
ProjectedItems(text) ==
    LET fields == selected_fields(remove_comments(normalize(text)))
    IN  {bare_field(fields[i]) : i \in 1..Len(fields)}

\* the tables of the live schema the text names
TablesRead(text) ==
    {t \in Range(all_table_names) : SearchWholeWord(t, normalize(text))}

\* the text projects a column whose name, lower-cased, is in names: by its
\* name, or by a '*' (bare or table-qualified) over a table that has it
ProjectsSensitive(text, names) ==
    \/ ProjectedItems(text) \cap names # {}
    \/ /\ <<"*">> \in ProjectedItems(text)
       /\ \E t \in TablesRead(text) :
             \E c \in 1..Len(ColumnsOf(t)) : lower(ColumnsOf(t)[c]) \in names

\* C11: a query_data call whose sql projects a column of the sensitive-field
\* set (by name in any letter case, or through a '*', bare, table-qualified
\* or over a join, on a table that has such a column) is not accepted by the
\* validation pipeline.
C11_SensitiveProjectionRejected ==
    (ValidationFinished /\ ProjectsSensitive(sql, Range(sensitive_fields)))
        => ~ValidationAccepted

\* lines 166-174: the names get_sensitive_fields documents as always sensitive
default_fields ==
    << <<"p", "a", "s", "s", "w", "o", "r", "d">>, <<"p", "w", "d">>,
       <<"p", "a", "s", "s", "w", "d">>,
       <<"s", "a", "l", "a", "r", "y">>, <<"i", "n", "c", "o", "m", "e">>,
       <<"s", "s", "n">>,
       <<"s", "o", "c", "i", "a", "l", "_", "s", "e", "c", "u", "r", "i", "t", "y">>,
       <<"c", "r", "e", "d", "i", "t", "_", "c", "a", "r", "d">>,
       <<"b", "a", "n", "k", "_", "a", "c", "c", "o", "u", "n", "t">>,
       <<"i", "d", "_", "n", "u", "m", "b", "e", "r">>, <<"i", "d", "c", "a", "r", "d">>,
       <<"p", "h", "o", "n", "e">>, <<"m", "o", "b", "i", "l", "e">>,
       <<"a", "d", "d", "r", "e", "s", "s">>, <<"e", "m", "a", "i", "l">> >>

\* C12: the built-in default names are sensitive whatever SENSITIVE_FIELDS
\* holds: a query_data call whose sql projects a column with a default name
\* (password, salary, ...) is not accepted, also when SENSITIVE_FIELDS is
\* unset.
C12_DefaultNamesRejected ==
    (ValidationFinished /\ ProjectsSensitive(sql, Range(default_fields)))
        => ~ValidationAccepted

\* the normalized text starts with neither select nor with
NotSelectShaped(text) ==
    /\ ~startswith(normalize(text), W_select)
    /\ ~startswith(normalize(text), W_with)

\* C13: sql whose normalized form starts with neither select nor with is
\* turned down by the shape check alone: is_safe_query returns False without
\* looking for sensitive names or touching the database, is_sql_injection is
\* not called, and query_data logs and returns the unsafe-query rejection,
\* not the injection one.
C13_ShapeRejectedFirst ==
    (tool = "query_data" /\ pc # "safe_precheck" /\ NotSelectShaped(sql)) =>
        /\ pc \in {"validated", "done"}
        /\ ~safe
        /\ pc = "validated" => trace = <<>>
        /\ pc = "done" =>
              /\ trace = <<Ev("query_data", "is_safe_query", sql, FALSE)>>
              /\ result = failure_result(UnsafeMsg)
              /\ Len(query_logs) = logs0 + 1
              /\ query_logs[Len(query_logs)].operation = sql
              /\ query_logs[Len(query_logs)].success = FALSE
              /\ query_logs[Len(query_logs)].error_msg = UnsafeMsg

\* a text that carries an injection marker and is not select-shaped has been
\* rejected as unsafe, with a sensitive name configured that cannot even be
\* looked for
C13_Witness ==
    /\ pc = "done"
    /\ NotSelectShaped(sql)
    /\ is_sql_injection(sql)
    /\ \E k \in 1..Len(sensitive_fields) : pattern_error(sensitive_fields[k])
    /\ result = failure_result(UnsafeMsg)

\* C14: sql of valid SELECT or WITH ... SELECT shape, without a mutation
\* keyword, projecting only non-sensitive columns and without an injection
\* marker is accepted by the validation pipeline.
C14_ValidSelectAccepted ==
    ( /\ ValidationFinished
      /\ shape_ok(normalize(sql))
      /\ ~HasStandaloneMutationKeyword(sql)
      /\ ~ProjectsSensitive(sql, Range(sensitive_fields))
      /\ ~is_sql_injection(sql) )
        => ValidationAccepted

\* C15: sensitive names are matched as whole identifiers: when no sensitive
\* name occurs in the sql as a whole word (phone_backup with phone sensitive)
\* and the projection has no '*', is_safe_query does not return False on
\* account of the sensitive-field check, wherever the identifier stands,
\* also inside a function call.
C15_WholeIdentifierMatching ==
    LET n == normalize(sql)
    IN  ( /\ tool = "query_data"
          /\ pc = "validated"
          /\ shape_ok(n)
          /\ ~has_unsafe_keyword(n)
          /\ \A k \in 1..Len(sensitive_fields) :
                ~SearchWholeWord(sensitive_fields[k], n)
          /\ <<"*">> \notin ProjectedItems(sql) )
            => safe

\* C16: when a call made by is_safe_query raises (pattern compilation,
\* connect, cursor or DESCRIBE of the '*' lookup), is_safe_query returns
\* False: the exception does not leave it, and query_data returns the
\* unsafe-query rejection.
C16_ExceptionMeansReject ==
    (\E k \in 1..Len(trace) : trace[k].by = "is_safe_query" /\ ~trace[k].ok) =>
        /\ pc \in {"validated", "done"}
        /\ pc = "validated" => ~safe
        /\ pc = "done" => result = failure_result(UnsafeMsg)

\* ------------------------------------------------------------------------
\* Properties of repeated validation and of get_schema (Spec)
\* ------------------------------------------------------------------------
\* query_data has the verdict of the validation pipeline on the sql
VerdictKnown ==
    \E k \in 1..Len(trace) :
        trace[k].by = "query_data" /\ trace[k].op = "is_safe_query"

\* the log entries of earlier query_data calls with the sql of this call
EarlierEntries == {i \in 1..logs0 : query_logs[i].operation = sql}

\* that call ended with a rejection by the validation pipeline
EntryRejected(i) == query_logs[i].error_msg \in {UnsafeMsg, InjectionMsg}

\* a call made by is_safe_query raised in this call
LookupFailed ==
    \E k \in 1..Len(trace) : trace[k].by = "is_safe_query" /\ ~trace[k].ok

\* is_safe_query went to the database in this call
LookupMade == \E k \in 1..Len(trace) : trace[k].by = "is_safe_query"

C20_GetSchemaLeavesLogUnchanged ==
    tool = "get_schema" => Len(query_logs) = logs0

\* the last entry of the audit log
LastLog == query_logs[Len(query_logs)]

\* C20, amended: a get_schema call that returns after working on the
\* database has appended exactly one entry to the audit log: 'get_schema for
\* tables: [...]' with success, or 'get_schema' with the error of the driver
\* call that raised.  The log is unchanged while the call runs, when none of
\* the requested tables exists, and when connect raises.
C20_GetSchemaLogsOutcome ==
    tool = "get_schema" =>
        IF pc # "done" \/ result.kind = "raise" \/ result = failure_result(NoTablesMsg)
        THEN Len(query_logs) = logs0
        ELSE /\ Len(query_logs) = logs0 + 1
             /\ LastLog.success = result.success
             /\ LastLog.error_msg = result.error
             /\ LastLog.operation =
                   IF result.success
                   THEN T_get_schema_for \o
                        list_repr([i \in 1..Len(result.tables) |-> result.tables[i].name])
                   ELSE T_get_schema

\* get_schema has returned the tables and its entry follows an earlier one
C20_Witness ==
    /\ tool = "get_schema"
    /\ pc = "done"
    /\ result.success
    /\ logs0 = 1
    /\ Len(query_logs) = 2
    /\ LastLog.success

\* ------------------------------------------------------------------------
\* Properties of the front ends (SpecClient)
\* ------------------------------------------------------------------------
\* the last command of the front end was this one
LastWas(front, cmd) == last.front = front /\ last.cmd = cmd

\* C18: right after a session reset ('new chat'), whatever exchanges came
\* before, the conversation history is the initial seed (the original
\* few-shot examples in the command line client, or empty when seeding is
\* off; empty in the app, which adds the examples per message) and the
\* session id is not the one before the reset.
C18_ResetRestoresSeed ==
    /\ LastWas("cli", "new chat") =>
          /\ history_value = IF use_few_shot THEN few_shot_literal ELSE <<>>
          /\ session_id # last.id0
    /\ LastWas("app", "new chat") =>
          /\ agent_conversation_history = <<>>
          /\ app_session_id # last.id0

\* the command line client has been reset after natural-language exchanges
C18_Witness ==
    /\ LastWas("cli", "new chat")
    /\ exchanges.cli = MaxExchanges
    /\ conversation_history = SharedList
    /\ history_value = few_shot_literal
    /\ session_id = last.id0 + 1

\* h is h0 followed by the user turn with the query and one assistant turn
GrewByOneExchange(h, h0, query) ==
    /\ Len(h) = Len(h0) + 2
    /\ SubSeq(h, 1, Len(h0)) = h0
    /\ h[Len(h0) + 1] = Entry("user", query)
    /\ h[Len(h0) + 2].role = "assistant"

\* C19: every natural-language exchange, in the command line client
\* (process_query) and in the app (nlp_query_sync), also one in which the
\* language-model call or the query fails, extends the session's
\* conversation history by exactly two entries: the user turn, then an
\* assistant turn.
C19_TwoEntriesPerExchange ==
    /\ LastWas("cli", "process_query") =>
          GrewByOneExchange(history_value, last.history0, last.query)
    /\ (LastWas("app", "nlp_query") /\ last.response # ErrorResponse("create_client")) =>
          GrewByOneExchange(agent_conversation_history, last.history0, last.query)

\* ------------------------------------------------------------------------
\* Properties of get_query_logs and of the execution envelope (Spec)
\* ------------------------------------------------------------------------
\* C22: a get_query_logs call with limit <= 0 returns the failure
\* {"success": False, "error": "Limit must be a positive integer"}, with no
\* logs in it, and leaves the audit log as it was.
C22_NonPositiveLimitFails ==
    [][(pc = "idle" /\ tool' = "get_query_logs" /\ limit' <= 0) =>
          /\ pc' = "done"
          /\ result' = failure_result(LimitMsg)
          /\ ~result'.success
          /\ result'.logs = <<>>
          /\ query_logs' = query_logs]_vars

\* a call with limit <= 0 has failed while the audit log holds entries
C22_Witness ==
    /\ pc = "done"
    /\ tool = "get_query_logs"
    /\ limit <= 0
    /\ query_logs # <<>>
    /\ result = failure_result(LimitMsg)

\* the order of the envelope's steps on the database, lines 324-337
EnvelopeOrder ==
    <<"connect", "set_read_only", "start_transaction", "execute", "fetchall", "commit">>

\* the steps of the envelope that this call has made so far
EnvelopeSteps ==
    SelectSeq(trace, LAMBDA e : e.by = "query_data" /\ e.op \in Range(EnvelopeOrder))

\* C23: in every query_data call the envelope's steps on the database are
\* made in the order connect, SET TRANSACTION READ ONLY, START TRANSACTION,
\* execute(sql), fetchall, commit, each one only after the one before it
\* succeeded; the caller's sql is sent only after the read-only mode and
\* the transaction start both succeeded, and a successful result means all
\* six were made.
C23_EnvelopeOrder ==
    tool = "query_data" =>
        /\ Len(EnvelopeSteps) <= Len(EnvelopeOrder)
        /\ \A i \in 1..Len(EnvelopeSteps) :
              /\ EnvelopeSteps[i].op = EnvelopeOrder[i]
              /\ i < Len(EnvelopeSteps) => EnvelopeSteps[i].ok
        /\ \A k \in 1..Len(trace) :
              (trace[k].by = "query_data" /\ trace[k].op = "execute") =>
                 \E i \in 1..(k - 1) : \E j \in (i + 1)..(k - 1) :
                    /\ trace[i] = Ev("query_data", "set_read_only", <<>>, TRUE)
                    /\ trace[j] = Ev("query_data", "start_transaction", <<>>, TRUE)
        /\ (pc = "done" /\ result.kind = "return" /\ result.success) =>
              /\ Len(EnvelopeSteps) = Len(EnvelopeOrder)
              /\ EnvelopeSteps[Len(EnvelopeOrder)].ok

\* an accepted query went through the whole envelope and returned its rows
C23_Witness ==
    /\ pc = "done"
    /\ tool = "query_data"
    /\ result.success
    /\ [i \in 1..Len(EnvelopeSteps) |-> EnvelopeSteps[i].op] = EnvelopeOrder
    /\ Happened(Ev("query_data", "execute", sql, TRUE)) # {}

\* ------------------------------------------------------------------------
\* Properties of requests handled at the same time (SpecConcurrent)
\* ------------------------------------------------------------------------
\* the requests that log
Writers == {t \in Threads : threads[t].op = "log_query"}

\* the requests that read the log and returned it
Readers ==
    {t \in Threads : /\ threads[t].op = "get_query_logs"
                     /\ threads[t].pc = "done"
                     /\ threads[t].result.success}

\* the log holds the entry of every finished log_query call, once and as it
\* was built, and nothing else
AppendsAllKept ==
    /\ Len(query_logs) = Cardinality({t \in Writers : threads[t].pc = "done"})
    /\ \A t \in Writers :
          threads[t].pc = "done" =>
             Cardinality({k \in 1..Len(query_logs) :
                             query_logs[k] = threads[t].log_entry[1]}) = 1

\* what get_query_logs(lim) returns when the log holds its first total entries
SnapshotResult(total, lim) == get_query_logs_result(SubSeq(query_logs, 1, total), lim)

\* the result of every read is the one a single state of the log gives: the
\* log is only appended to, so the state of length total_queries is the
\* prefix of that length
ReadsAreSnapshots ==
    \A t \in Readers :
        /\ threads[t].result.total_queries <= Len(query_logs)
        /\ threads[t].result =
              SnapshotResult(threads[t].result.total_queries, threads[t].limit)

\* C21: with requests handled at the same time, the audit log holds exactly
\* the entries of the log_query calls that finished, each one intact, and
\* every get_query_logs result is the tail of one state of the log, the
\* state whose length is the returned total_queries.
C21_ConcurrentLogConsistent == AppendsAllKept /\ ReadsAreSnapshots

\* ------------------------------------------------------------------------
\* Properties of the front ends: the seed, the tool call, the server
\* processes of the app (SpecClient, SpecApp)
\* ------------------------------------------------------------------------
\* C24: whatever natural-language exchanges and resets the two front ends
\* go through, the list FEW_SHOT_EXAMPLES of each keeps its original
\* entries, and a command of one front end leaves the conversation history
\* of the other as it was.
C24_SeedNeverModified ==
    /\ [](FEW_SHOT_EXAMPLES = few_shot_literal /\ app_FEW_SHOT_EXAMPLES = few_shot_literal)
    /\ [][/\ last'.front = "cli" =>
                agent_conversation_history' = agent_conversation_history
          /\ last'.front = "app" =>
                /\ conversation_history' = conversation_history
                /\ FEW_SHOT_EXAMPLES' = FEW_SHOT_EXAMPLES]_vars

\* the app has added the history of an earlier exchange to the history of
\* a new client, and the command line client has had an exchange and a reset
C24_Witness ==
    /\ LastWas("app", "nlp_query")
    /\ last.connect = "ok"
    /\ last.history0 # <<>>
    /\ Len(agent_conversation_history) > Len(last.history0)
    /\ exchanges.cli >= 1
    /\ uuids.cli >= 2
    /\ FEW_SHOT_EXAMPLES = few_shot_literal
    /\ app_FEW_SHOT_EXAMPLES = few_shot_literal

\* the last command was a natural-language exchange that reached process_query
NaturalLanguageExchange ==
    \/ LastWas("cli", "process_query")
    \/ LastWas("app", "nlp_query") /\ last.connect = "ok"

\* C25: in a natural-language exchange process_query sends at most one
\* tool call, a query_data call with the sql of the language model's
\* answer, and only when that answer has an empty direct_response and a
\* non-empty sql; when the answer has a direct_response no call is sent,
\* and when it has neither the caller gets the plain text that says there
\* is nothing to act on, and no call is sent.
C25_ToolCallOnlyForSql ==
    NaturalLanguageExchange =>
        /\ Len(last.tool_calls) <= 1
        /\ last.tool_calls # <<>> =>
              /\ last.tool_calls[1] = [tool |-> "query_data", sql |-> last.llm.sql]
              /\ last.llm.kind = "json"
              /\ last.llm.direct_response = ""
              /\ last.llm.sql # <<>>
        /\ (last.prompt_ok /\ last.llm.kind = "json") =>
              /\ last.llm.direct_response # "" => last.tool_calls = <<>>
              /\ (last.llm.direct_response = "" /\ last.llm.sql = <<>>) =>
                    /\ last.response.kind = "unhandled"
                    /\ last.tool_calls = <<>>

\* the last command of the app needs a server: schema, sql, log or a
\* natural-language message
AppServerCommand ==
    last.front = "app" /\ last.cmd \in {"schema", "sql", "log", "nlp_query"}

====
